---- MODULE Spec2Model ----
(***************************************************************************)
(* A model of agentbrowser's learning memory store (SiteMemoryStore), its  *)
(* task executor (TaskExecutor) and the part of the page driver            *)
(* (BrowserEngine) the executor relies on.                                 *)
(*                                                                         *)
(* The SQLite tables are sets of rows; a statement is one atomic step      *)
(* (better-sqlite3 is synchronous and JavaScript runs one callback at a    *)
(* time).  Date.now() is the variable clock.                               *)
(***************************************************************************)
EXTENDS Integers, Sequences, FiniteSets, TLC

VARIABLES
  clock,             \* Date.now()
  page_model_cache,  \* table page_model_cache : set of rows
  selector_library,  \* table selector_library : set of rows
  ret,               \* what the last store call returned
  nOps,              \* calls made so far (bounds the behaviours)
  nTicks,            \* clock advances made so far
  lastWrite,         \* history: url_pattern -> time of the last cacheModel, or NoTime
  hist,              \* history: selector key -> the outcomes recorded for it, in order
  cacheHist,         \* history: url_pattern -> the models cached since it was last invalidated
  recScript,         \* session -> the recordSelectorOutcome calls it is going to make
  recDone,           \* session -> how many of them it has made
  site_profiles,     \* table site_profiles : set of rows
  site_knowledge,    \* table site_knowledge : set of rows
  pages,             \* BrowserEngine.pages : session -> the URL its page is on
  pageModels,        \* TaskExecutor.pageModels : session -> current model
  last,              \* history: the last executor call, what it did and returned
  contexts,          \* BrowserEngine.contexts : the sessions live in the driver
  tasks,             \* the task list runParallel was called with
  task_pc,           \* task -> the await its runTask is at
  task_outcome,      \* task -> what its try/catch block is going to return
  task_promise,      \* task -> the promise runTask returned
  batch,             \* the promise runParallel returned (Promise.all)
  sessions,          \* table sessions : set of rows
  requests,          \* the executor calls in flight or finished, in order of arrival
  knowHist,          \* history: domain -> the notes accepted, page types passed, visits recorded
  sessHist,          \* history: session id -> the saves and deletes made on it, in order
  sessionId,         \* AgentBrowser.sessionId : the facade's session, or Null
  activeSession      \* AgentBrowserMCPServer.activeSession : the server's session, or Null

storeVars == <<clock, page_model_cache, selector_library>>
histVars == <<lastWrite, hist, cacheHist>>
countVars == <<nOps, nTicks>>
concVars == <<recScript, recDone>>
frontVars == <<sessionId, activeSession>>
sideVars == <<sessions, requests, knowHist, sessHist, frontVars>>
execVars == <<site_profiles, site_knowledge, pages, pageModels, last>>
parVars == <<contexts, tasks, task_pc, task_outcome, task_promise, batch>>
vars ==
  <<clock, page_model_cache, selector_library, ret, nOps, nTicks, lastWrite, hist,
    cacheHist,
    recScript, recDone, site_profiles, site_knowledge, pages, pageModels, last,
    contexts, tasks, task_pc, task_outcome, task_promise, batch,
    sessions, requests, knowHist, sessHist, sessionId, activeSession>>

(***************************************************************************)
(* Program constants and bounds                                            *)
(***************************************************************************)
CACHE_TTL_MS == 1800000

MaxTicks == 2        \* clock advances in one behaviour of the cache specification
MaxCacheOps == 3     \* cache calls in one behaviour of the cache specification
MaxOutcomes == 5     \* recordSelectorOutcome calls in one behaviour
MaxCallsPerSession == 2  \* recordSelectorOutcome calls of one concurrent session
MaxExecOps == 3      \* executor calls in one behaviour of the executor specification
MaxTasks == 2        \* tasks in one runParallel call
MaxProfileOps == 3   \* updateSiteProfile calls in one behaviour of the profile specification
MaxKnowOps == 4      \* store writes in one behaviour of the knowledge specification
MaxSessionOps == 3   \* saveSession and deleteSession calls in one behaviour
MaxRequests == 3     \* refreshModel calls in one behaviour of the refresh specification

NoTime == -1
Null == "<null>"     \* JavaScript null / undefined as a return value

\* an optional member: <<>> when undefined, <<value>> when set
Undefined == <<>>
Some(value) == <<value>>

(***************************************************************************)
(* URLs.  A URL the WHATWG parser accepts is its hostname, its path        *)
(* segments, whether the path ends in a slash, and its query string; one   *)
(* it rejects (new URL throws) is only its text.                           *)
(***************************************************************************)
Url(host, segs, slash, search) ==
  [ok |-> TRUE, host |-> host, segs |-> segs, slash |-> slash, search |-> search, raw |-> ""]

BadUrl(text) ==
  [ok |-> FALSE, host |-> "", segs |-> <<>>, slash |-> FALSE, search |-> "", raw |-> text]

RECURSIVE JoinSegs(_)
JoinSegs(segs) ==
  IF segs = <<>> THEN "" ELSE "/" \o Head(segs) \o JoinSegs(Tail(segs))

\* URL.pathname
Pathname(u) ==
  IF u.segs = <<>> THEN "/" ELSE JoinSegs(u.segs) \o (IF u.slash THEN "/" ELSE "")

\* the URL as the driver reports it (page.url())
Href(u) ==
  IF u.ok THEN "https://" \o u.host \o Pathname(u) \o u.search ELSE u.raw

\* u.pathname.replace(/\/$/, ''): one trailing slash removed
StripTrailingSlash(u) ==
  IF u.segs = <<>> THEN "" ELSE JoinSegs(u.segs)

normalizeUrl_KeepQuery(u) ==
  IF u.ok
    THEN u.host \o (IF StripTrailingSlash(u) = "" THEN "/" ELSE StripTrailingSlash(u))
           \o u.search
    ELSE u.raw
normalizeUrl(u) ==
  IF u.ok
    THEN u.host \o (IF StripTrailingSlash(u) = "" THEN "/" ELSE StripTrailingSlash(u))
    ELSE u.raw

getDomain(u) == IF u.ok THEN u.host ELSE u.raw

\* new URL(text) for a text that is the href of one of the URLs known, and
\* for a text that is none: the parser throws
NewURL(text, known) ==
  IF \E u \in known : u.ok /\ Href(u) = text
    THEN CHOOSE u \in known : u.ok /\ Href(u) = text
    ELSE BadUrl(text)

\* normalizeUrl on the text of a URL
normalizeUrlText(text, known) == normalizeUrl(NewURL(text, known))

(***************************************************************************)
(* Page models (types.ts).  An absent optional string is "": the code only *)
(* tests such fields for truthiness.  field_map keeps the order of         *)
(* Object.entries; has_map tells an absent map from an empty one.          *)
(***************************************************************************)
NoInternal ==
  [type |-> "", selector |-> "", has_map |-> FALSE, field_map |-> <<>>, submit_selector |-> ""]

Internal(type, selector, has_map, field_map, submit_selector) ==
  [type |-> type, selector |-> selector, has_map |-> has_map,
   field_map |-> field_map, submit_selector |-> submit_selector]

ActionDefinition(name, hinted, internal) ==
  [name |-> name, hinted |-> hinted, internal |-> internal]

FormField(name, label, selector) == [name |-> name, label |-> label, selector |-> selector]

FormDefinition(name, fields) == [name |-> name, fields |-> fields]

\* SemanticAnalyzer.buildModel: the translator's parsed output under the page's URL
buildModel(url, parsed, now) ==
  [url |-> url, page_type |-> parsed.page_type, task_status |-> parsed.task_status,
   key_data |-> parsed.key_data, available_actions |-> parsed.available_actions,
   warnings |-> parsed.warnings, forms |-> parsed.forms, timestamp |-> now]

\* SemanticAnalyzer.fallbackModel
fallbackModel(url, now) ==
  [url |-> url, page_type |-> "unknown", task_status |-> "page loaded, analysis failed",
   key_data |-> <<>>,
   available_actions |-> <<ActionDefinition("extract_raw", FALSE, NoInternal)>>,
   warnings |-> <<"semantic analysis failed">>, forms |-> <<>>, timestamp |-> now]

\* TaskExecutor.buildCaptchaModel
buildCaptchaModel_Retry(url, now) ==
  [url |-> url, page_type |-> "captcha", task_status |-> "blocked by CAPTCHA",
   key_data |-> <<>>,
   available_actions |-> <<[name |-> "retry", hinted |-> FALSE,
                            internal |-> [type |-> "", selector |-> "", has_map |-> FALSE,
                                          field_map |-> <<>>, submit_selector |-> ""]]>>,
   warnings |-> <<"CAPTCHA detected">>, forms |-> <<>>, timestamp |-> now]
buildCaptchaModel(url, now) ==
  [url |-> url, page_type |-> "captcha", task_status |-> "blocked by CAPTCHA",
   key_data |-> <<>>, available_actions |-> <<>>,
   warnings |-> <<"CAPTCHA detected">>, forms |-> <<>>, timestamp |-> now]

\* "no model": the null of getCachedModel, the missing entry of pageModels
NoModel ==
  [url |-> BadUrl(""), page_type |-> Null, task_status |-> "", key_data |-> <<>>,
   available_actions |-> <<>>, warnings |-> <<>>, forms |-> <<>>, timestamp |-> NoTime]

\* JSON text of an object: its members, <<name, value>>, in order
HasMember(text, name) == \E i \in 1..Len(text) : text[i][1] = name
Member(text, name) == text[CHOOSE i \in 1..Len(text) : text[i][1] = name][2]

\* an action in JSON: a member whose value is undefined (_internal of an action
\* without a hint) is left out
StringifyAction(action) ==
  IF action.hinted
    THEN <<<<"name", action.name>>, <<"_internal", action.internal>>>>
    ELSE <<<<"name", action.name>>>>

ParseAction(text) ==
  ActionDefinition(Member(text, "name"), HasMember(text, "_internal"),
                   IF HasMember(text, "_internal") THEN Member(text, "_internal")
                   ELSE NoInternal)

\* JSON.stringify(model)
JSONstringify(model) ==
  <<<<"url", model.url>>, <<"page_type", model.page_type>>,
    <<"task_status", model.task_status>>, <<"key_data", model.key_data>>,
    <<"available_actions",
      [i \in 1..Len(model.available_actions) |->
         StringifyAction(model.available_actions[i])]>>,
    <<"warnings", model.warnings>>, <<"forms", model.forms>>,
    <<"timestamp", model.timestamp>>>>

\* JSON.parse(row.model_json) as SemanticPageModel
JSONparse(text) ==
  [url |-> Member(text, "url"), page_type |-> Member(text, "page_type"),
   task_status |-> Member(text, "task_status"), key_data |-> Member(text, "key_data"),
   available_actions |->
     [i \in 1..Len(Member(text, "available_actions")) |->
        ParseAction(Member(text, "available_actions")[i])],
   warnings |-> Member(text, "warnings"), forms |-> Member(text, "forms"),
   timestamp |-> Member(text, "timestamp")]

(***************************************************************************)
(* Saved sessions (store.ts 310-340)                                       *)
(***************************************************************************)
\* an AgentSession: its id, its times and its exported storage state
AgentSession(id, createdAt, lastActive, storageState) ==
  [id |-> id, created_at |-> createdAt, last_active |-> lastActive,
   storage_state |-> storageState]

\* the null of getSession
NoSession == AgentSession("", NoTime, NoTime, "")

StringifySession(session) ==
  <<<<"id", session.id>>, <<"created_at", session.created_at>>,
    <<"last_active", session.last_active>>, <<"auth_domains", <<>>>>,
    <<"storage_state", session.storage_state>>, <<"history", <<>>>>>>

ParseSession(text) ==
  AgentSession(Member(text, "id"), Member(text, "created_at"), Member(text, "last_active"),
               Member(text, "storage_state"))

\* saveSession: INSERT ... ON CONFLICT(id) DO UPDATE SET data, last_active
saveSession_KeepFirst(table, session) ==
  IF \E r \in table : r.id = session.id THEN table
  ELSE table \cup {[id |-> session.id, data |-> StringifySession(session),
                    created_at |-> session.created_at,
                    last_active |-> session.last_active]}
saveSession(table, session) ==
  IF \E r \in table : r.id = session.id
    THEN {IF r.id = session.id
            THEN [r EXCEPT !.data = StringifySession(session),
                           !.last_active = session.last_active]
            ELSE r : r \in table}
    ELSE table \cup {[id |-> session.id, data |-> StringifySession(session),
                      created_at |-> session.created_at,
                      last_active |-> session.last_active]}

\* getSession: the parsed data of the row, null without a row
getSession(table, id) ==
  IF \E r \in table : r.id = id
    THEN ParseSession((CHOOSE r \in table : r.id = id).data)
    ELSE NoSession

\* listSessions: SELECT data FROM sessions ORDER BY last_active DESC; rows of
\* equal last_active come in either order
listSessions(table) ==
  {[i \in 1..Cardinality(table) |-> ParseSession(order[i].data)] :
     order \in {f \in [1..Cardinality(table) -> table] :
                  /\ \A i, j \in 1..Cardinality(table) : f[i] = f[j] => i = j
                  /\ \A i, j \in 1..Cardinality(table) :
                       i < j => f[i].last_active >= f[j].last_active}}

\* deleteSession: DELETE FROM sessions WHERE id = ?
deleteSession(table, id) == {r \in table : r.id # id}

(***************************************************************************)
(* Page model cache (store.ts 87-127)                                      *)
(***************************************************************************)
CacheRow(c, pattern) == CHOOSE r \in c : r.url_pattern = pattern
HasCacheRow(c, pattern) == \E r \in c : r.url_pattern = pattern

\* store.ts 98: the entry is past its time-to-live
Expired(row, now) == now - row.last_updated > CACHE_TTL_MS

\* store.ts 101-103: UPDATE page_model_cache SET hit_count = hit_count + 1
IncrementHit_Touch(c, pattern, now) ==
  {IF r.url_pattern = pattern
     THEN [r EXCEPT !.hit_count = @ + 1, !.last_updated = now] ELSE r : r \in c}
IncrementHit(c, pattern, now) ==
  {IF r.url_pattern = pattern THEN [r EXCEPT !.hit_count = @ + 1] ELSE r : r \in c}

\* getCachedModel: the value returned
getCachedModel(c, url, now) ==
  LET pattern == normalizeUrl(url) IN
  IF ~HasCacheRow(c, pattern) THEN NoModel
  ELSE IF Expired(CacheRow(c, pattern), now) THEN NoModel
  ELSE JSONparse(CacheRow(c, pattern).model_json)

\* getCachedModel: the table it leaves
getCachedModelEffect(c, url, now) ==
  LET pattern == normalizeUrl(url) IN
  IF ~HasCacheRow(c, pattern) THEN c
  ELSE IF Expired(CacheRow(c, pattern), now) THEN c
  ELSE IncrementHit(c, pattern, now)

\* cacheModel: INSERT ... ON CONFLICT(url_pattern) DO UPDATE SET model_json, last_updated
cacheModel_KeepFirst(c, url, model, now) ==
  IF HasCacheRow(c, normalizeUrl(url)) THEN c
  ELSE c \cup {[url_pattern |-> normalizeUrl(url), domain |-> getDomain(url),
                model_json |-> JSONstringify(model), hit_count |-> 0,
                last_updated |-> now]}
cacheModel(c, url, model, now) ==
  LET pattern == normalizeUrl(url) IN
  IF HasCacheRow(c, pattern)
    THEN {IF r.url_pattern = pattern
            THEN [r EXCEPT !.model_json = JSONstringify(model), !.last_updated = now]
            ELSE r : r \in c}
    ELSE c \cup {[url_pattern |-> pattern, domain |-> getDomain(url),
                  model_json |-> JSONstringify(model), hit_count |-> 0,
                  last_updated |-> now]}

\* invalidateCache: DELETE FROM page_model_cache WHERE domain = ?
invalidateCache_All(c, domain) == {}
invalidateCache(c, domain) == {r \in c : r.domain # domain}

(***************************************************************************)
(* Selector library (store.ts 129-196)                                     *)
(***************************************************************************)
SameKey(r, domain, actionName, selector) ==
  r.domain = domain /\ r.action_name = actionName /\ r.selector = selector

\* id INTEGER PRIMARY KEY AUTOINCREMENT (rows are never deleted)
NextId(lib) == Cardinality(lib) + 1

\* INSERT ... ON CONFLICT(domain, action_name, selector) DO UPDATE SET
\*   success_count = success_count + ?, fail_count = fail_count + ?, last_used = ?
UpsertSelector_Overwrite(lib, domain, actionName, selector, success, now) ==
  {r \in lib : ~SameKey(r, domain, actionName, selector)} \cup
    {[id |-> NextId(lib), domain |-> domain, action_name |-> actionName,
      selector |-> selector, success_count |-> IF success THEN 1 ELSE 0,
      fail_count |-> IF success THEN 0 ELSE 1, last_used |-> now]}
UpsertSelector_Insert(lib, domain, actionName, selector, success, now) ==
  lib \cup {[id |-> NextId(lib), domain |-> domain, action_name |-> actionName,
             selector |-> selector, success_count |-> IF success THEN 1 ELSE 0,
             fail_count |-> IF success THEN 0 ELSE 1, last_used |-> now]}
UpsertSelector(lib, domain, actionName, selector, success, now) ==
  IF \E r \in lib : SameKey(r, domain, actionName, selector)
    THEN {IF SameKey(r, domain, actionName, selector)
            THEN [r EXCEPT !.success_count = @ + (IF success THEN 1 ELSE 0),
                           !.fail_count = @ + (IF success THEN 0 ELSE 1),
                           !.last_used = now]
            ELSE r : r \in lib}
    ELSE lib \cup {[id |-> NextId(lib), domain |-> domain, action_name |-> actionName,
                    selector |-> selector, success_count |-> IF success THEN 1 ELSE 0,
                    fail_count |-> IF success THEN 0 ELSE 1, last_used |-> now]}

\* recordSelectorOutcome: `if (!selector) return`, then the upsert
recordSelectorOutcome_AlwaysSuccess(lib, domain, actionName, selector, success, now) ==
  IF selector = "" THEN lib
  ELSE UpsertSelector(lib, domain, actionName, selector, TRUE, now)
recordSelectorOutcome(lib, domain, actionName, selector, success, now) ==
  IF selector = "" THEN lib
  ELSE UpsertSelector(lib, domain, actionName, selector, success, now)

Attempts(r) == r.success_count + r.fail_count

\* WHERE domain = ? AND action_name = ? AND success_count + fail_count >= 2
EligibleRows_AnyAttempt(lib, domain, actionName) ==
  {r \in lib : r.domain = domain /\ r.action_name = actionName}
EligibleRows(lib, domain, actionName) ==
  {r \in lib : r.domain = domain /\ r.action_name = actionName /\ Attempts(r) >= 2}

\* ORDER BY rate DESC, attempts DESC: r sorts strictly before q.  The rates are
\* the doubles success/attempts, compared here as fractions.
SortsBefore_RateOnly(r, q) ==
  r.success_count * Attempts(q) > q.success_count * Attempts(r)
SortsBefore(r, q) ==
  \/ r.success_count * Attempts(q) > q.success_count * Attempts(r)
  \/ /\ r.success_count * Attempts(q) = q.success_count * Attempts(r)
     /\ Attempts(r) > Attempts(q)

\* LIMIT 1: a row no other row sorts before (SQLite may return any of them)
FirstRows(rows) == {r \in rows : \A q \in rows : ~SortsBefore(q, r)}

\* row.rate < 0.5
RateBelowHalf(r) == 2 * r.success_count < Attempts(r)

\* getBestSelector: the values it may return
getBestSelector(lib, domain, actionName) ==
  LET rows == EligibleRows(lib, domain, actionName) IN
  IF rows = {} THEN {Null}
  ELSE {IF RateBelowHalf(r) THEN Null ELSE r.selector : r \in FirstRows(rows)}

\* getKnownSelectors: the values it may return, each a set of <<action_name,
\* selector>> entries.  GROUP BY action_name with the bare columns selector and
\* rate yields, for each action, the values of one row of the group, which row
\* SQLite does not say; HAVING rate >= 0.5 is tested on that row.
getKnownSelectors(lib, domain) ==
  LET rows == {r \in lib : r.domain = domain /\ Attempts(r) >= 2}
      groups == {r.action_name : r \in rows}
      picks == {f \in [groups -> rows] : \A a \in groups : f[a].action_name = a}
  IN {{<<a, f[a].selector>> : a \in {g \in groups : ~RateBelowHalf(f[g])}} : f \in picks}

(***************************************************************************)
(* The inputs of the store specifications                                  *)
(***************************************************************************)
CacheUrls ==
  {Url("x.com", <<"a">>, FALSE, ""), Url("x.com", <<"a">>, TRUE, "?sid=123"),
   Url("x.com", <<"a">>, FALSE, "?sid=456"),
   Url("y.com", <<>>, FALSE, ""), BadUrl("not a url")}

CacheDomains == {getDomain(u) : u \in CacheUrls}

CacheModels ==
  {fallbackModel(Url("x.com", <<"a">>, FALSE, ""), 0),
   buildCaptchaModel(Url("x.com", <<"a">>, FALSE, ""), 0)}

TickDeltas == {1, CACHE_TTL_MS}

SelDomains == {"x.com", "y.com"}
SelActions == {"login", "login.email"}
SelSelectors == {"", "#a", "#b"}
\* the calls drawn: two selectors of one action, another action, another domain,
\* and the empty selector
SelInputs ==
  {<<"x.com", "login", "#a">>, <<"x.com", "login", "#b">>, <<"x.com", "login.email", "#a">>,
   <<"y.com", "login", "#a">>, <<"x.com", "login", "">>}
SelKeys == {k \in SelInputs : k[3] # ""}

ConcSessions == {"s1", "s2"}
ConcKeys == {<<"x.com", "login", "#a">>, <<"x.com", "login", "#b">>}

Patterns == {normalizeUrl(u) : u \in CacheUrls}

NoRet ==
  [op |-> "", pattern |-> "", domain |-> "", action |-> "", model |-> NoModel,
   selector |-> Null, at |-> 0, hits |-> 0, known |-> {}, context |-> Undefined,
   id |-> "", session |-> NoSession, list |-> <<>>,
   url |-> BadUrl(""), prev_op |-> "", prev_url |-> BadUrl(""), prev_model |-> NoModel]

\* sequences over S of length at most n
RECURSIVE SeqsUpTo(_, _)
SeqsUpTo(S, n) ==
  IF n = 0 THEN {<<>>}
  ELSE LET shorter == SeqsUpTo(S, n - 1) IN
       shorter \cup {Append(q, x) : q \in shorter, x \in S}

\* how many elements of the sequence q satisfy being equal to x
RECURSIVE Count(_, _)
Count(q, x) ==
  IF q = <<>> THEN 0 ELSE (IF Head(q) = x THEN 1 ELSE 0) + Count(Tail(q), x)

(***************************************************************************)
(* Site profiles and visit counts (store.ts 198-225, 296-306)              *)
(***************************************************************************)
MaxNotes == 20

SeqIncludes(q, x) == \E i \in 1..Len(q) : q[i] = x

HasProfile(profiles, domain) == \E r \in profiles : r.domain = domain
ProfileOf(profiles, domain) == CHOOSE r \in profiles : r.domain = domain

\* updateSiteProfile; note = "" is the omitted (or empty, equally falsy) note
updateSiteProfile_NoShift(profiles, domain, pageType, note) ==
  LET existing == HasProfile(profiles, domain)
      pageTypes0 == IF existing THEN ProfileOf(profiles, domain).page_types ELSE <<>>
      notes0 == IF existing THEN ProfileOf(profiles, domain).notes ELSE <<>>
      pageTypes == IF SeqIncludes(pageTypes0, pageType) THEN pageTypes0
                   ELSE Append(pageTypes0, pageType)
      notes == IF note # "" /\ ~SeqIncludes(notes0, note)
                 THEN Append(notes0, note) ELSE notes0
  IN {r \in profiles : r.domain # domain} \cup
       {[domain |-> domain, page_types |-> pageTypes, notes |-> notes]}
updateSiteProfile(profiles, domain, pageType, note) ==
  LET existing == HasProfile(profiles, domain)
      pageTypes0 == IF existing THEN ProfileOf(profiles, domain).page_types ELSE <<>>
      notes0 == IF existing THEN ProfileOf(profiles, domain).notes ELSE <<>>
      pageTypes == IF SeqIncludes(pageTypes0, pageType) THEN pageTypes0
                   ELSE Append(pageTypes0, pageType)
      pushed == Append(notes0, note)
      notes == IF note # "" /\ ~SeqIncludes(notes0, note)
                 THEN (IF Len(pushed) > MaxNotes THEN Tail(pushed) ELSE pushed)
                 ELSE notes0
  IN {r \in profiles : r.domain # domain} \cup
       {[domain |-> domain, page_types |-> pageTypes, notes |-> notes]}

\* incrementVisitCount: INSERT ... VALUES (?, '{}', ?, 1)
\*   ON CONFLICT(domain) DO UPDATE SET visit_count = visit_count + 1
incrementVisitCount_Replace(knowledge, domain) ==
  {r \in knowledge : r.domain # domain}
    \cup {[domain |-> domain, data |-> <<>>, visit_count |-> 1]}
incrementVisitCount(knowledge, domain) ==
  IF \E r \in knowledge : r.domain = domain
    THEN {IF r.domain = domain THEN [r EXCEPT !.visit_count = @ + 1] ELSE r : r \in knowledge}
    ELSE knowledge \cup {[domain |-> domain, data |-> <<>>, visit_count |-> 1]}

\* JSON.stringify(knowledge) of a SiteKnowledge object
StringifyKnowledge(domain, visitCount) ==
  <<<<"domain", domain>>, <<"visit_count", visitCount>>, <<"known_page_types", <<>>>>>>

\* saveSiteKnowledge: INSERT ... VALUES (domain, JSON, now, knowledge.visit_count)
\*   ON CONFLICT(domain) DO UPDATE SET data = excluded.data, visit_count = visit_count + 1
saveSiteKnowledge(knowledge, domain, visitCount) ==
  IF \E r \in knowledge : r.domain = domain
    THEN {IF r.domain = domain
            THEN [r EXCEPT !.data = StringifyKnowledge(domain, visitCount),
                           !.visit_count = @ + 1]
            ELSE r : r \in knowledge}
    ELSE knowledge \cup {[domain |-> domain, data |-> StringifyKnowledge(domain, visitCount),
                          visit_count |-> visitCount]}

\* getSiteKnowledge(domain)?.visit_count ?? 0: the member of the parsed data
\* column, 0 when there is no row or the object has no such member
KnowledgeVisitCount(knowledge, domain) ==
  IF \E r \in knowledge : r.domain = domain
    THEN LET data == (CHOOSE r \in knowledge : r.domain = domain).data
         IN IF HasMember(data, "visit_count") THEN Member(data, "visit_count") ELSE 0
    ELSE 0

\* names.join(sep)
RECURSIVE JoinWith(_, _)
JoinWith(names, sep) ==
  IF names = <<>> THEN ""
  ELSE IF Len(names) = 1 THEN names[1]
  ELSE names[1] \o sep \o JoinWith(Tail(names), sep)

VisitLine(n) == "This domain has been visited " \o ToString(n) \o " times."

\* buildLLMContext(domain) when getKnownSelectors(domain) answers known: the
\* digest is its lines, in order, and after them the header and the lines of
\* the known selectors (selector_lines, in the order of known); Undefined when
\* there is nothing to say
buildLLMContext(profiles, knowledge, known, domain) ==
  LET visitCount == KnowledgeVisitCount(knowledge, domain)
      hasProfile == HasProfile(profiles, domain)
      profile == ProfileOf(profiles, domain)
      visitLines == IF visitCount > 0 THEN <<VisitLine(visitCount)>> ELSE <<>>
      typeLines == IF hasProfile /\ Len(profile.page_types) > 0
                     THEN <<"Known page types on this domain: "
                              \o JoinWith(profile.page_types, ", ")>>
                     ELSE <<>>
      noteLines == IF hasProfile /\ Len(profile.notes) > 0
                     THEN <<"Site notes: " \o JoinWith(profile.notes, "; ")>>
                     ELSE <<>>
      lines == visitLines \o typeLines \o noteLines
      selectorLines == {"  - " \o e[1] \o ": " \o e[2] : e \in known}
  IN IF ~hasProfile /\ visitCount = 0 /\ known = {} THEN Undefined
     ELSE IF lines = <<>> /\ known = {} THEN Undefined
     ELSE Some([lines |-> lines, selector_lines |-> selectorLines])

(***************************************************************************)
(* The page driver (BrowserEngine, store.ts 828-1156) as the executor      *)
(* sees it, and the site it is pointed at                                  *)
(***************************************************************************)
\* a new page is on about:blank, which new URL() parses: hostname "", an
\* opaque path ("blank", written "/blank" here)
AboutBlank ==
  [ok |-> TRUE, host |-> "", segs |-> <<"blank">>, slash |-> FALSE, search |-> "",
   raw |-> "about:blank"]

\* the session has no page (pages.get(sessionId) is undefined)
NoPage == BadUrl("<no page>")

UrlA == Url("x.com", <<"a">>, FALSE, "")
UrlB == Url("x.com", <<"b">>, FALSE, "")
UrlCaptcha == Url("x.com", <<"captcha">>, FALSE, "")

ExecUrls == {UrlA, UrlB, UrlCaptcha}

ExecSessions == {"s1"}

\* checkForCaptcha (store.ts 1016-1028): the URL holds /captcha or /challenge
\* (the pages of the modelled site carry ordinary titles)
checkForCaptcha(url) ==
  url.ok /\ \E i \in 1..Len(url.segs) : url.segs[i] \in {"captcha", "challenge"}

\* sel.startsWith('http://') || sel.startsWith('https://'), over the selectors
\* of the modelled pages: the absolute URLs among them
StartsWithHttp(sel) == \E u \in ExecUrls : Href(u) = sel

\* the URL an absolute-URL selector names
ParseHref(sel) == CHOOSE u \in ExecUrls : Href(u) = sel

\* BrowserEngine.navigate (store.ts 918-930): reddit.com is rerouted
navigateTarget(url) ==
  IF url.ok /\ url.host \in {"reddit.com", "www.reddit.com"}
    THEN [url EXCEPT !.host = "old.reddit.com"]
    ELSE url

(***************************************************************************)
(* What the translator may answer for a page (part_000 84-112)             *)
(***************************************************************************)
ParsedLogin ==
  [page_type |-> "login", task_status |-> "awaiting login", key_data |-> <<>>,
   available_actions |->
     <<ActionDefinition("login", TRUE,
         Internal("form", "", TRUE, <<<<"email", "#e">>, <<"password", "#p">>>>, "#s")),
       ActionDefinition("go", FALSE, NoInternal)>>,
   warnings |-> <<>>,
   forms |-> <<FormDefinition("Login", <<FormField("email", "Email", "#e"),
                                         FormField("password", "Password", "")>>)>>]

ParsedSearch ==
  [page_type |-> "search", task_status |-> "ready", key_data |-> <<>>,
   available_actions |->
     <<ActionDefinition("search", TRUE, Internal("fill", "", TRUE, <<<<"q", "#q">>>>, "")),
       ActionDefinition("go", TRUE, Internal("click", "#go", FALSE, <<>>, "")),
       ActionDefinition("home", TRUE, Internal("navigate", Href(UrlB), FALSE, <<>>, ""))>>,
   warnings |-> <<>>, forms |-> <<>>]

\* a page the translator calls a dashboard, its actions without hints
ParsedDashboard ==
  [page_type |-> "dashboard", task_status |-> "logged in", key_data |-> <<>>,
   available_actions |-> <<ActionDefinition("go", FALSE, NoInternal),
                           ActionDefinition("home", FALSE, NoInternal)>>,
   warnings |-> <<>>, forms |-> <<>>]

\* the prompt's limit on key_data ("max 10 items", part_000 28)
MAX_KEY_DATA == 10

\* key_data of n entries, <<key, value>> each
KeyData(n) == [i \in 1..n |-> <<i, i>>]

\* an answer that does not keep to the prompt: one key_data entry too many
ParsedWordy == [ParsedDashboard EXCEPT !.key_data = KeyData(MAX_KEY_DATA + 1)]

\* an analysis ends in a parsed answer ("login", "search", "wordy"), in an
\* answer that is no text or cannot be parsed ("malformed": both return
\* fallbackModel), or in an exception ("throw": getPageHTML, getAccessibilityTree
\* or client.messages.create rejects; neither refreshModel nor analyze has a try
\* around them)
Analyses == {"login", "search", "wordy", "malformed", "throw"}

Parsed(analysis) ==
  CASE analysis = "login" -> ParsedLogin
    [] analysis = "wordy" -> ParsedWordy
    [] OTHER -> ParsedSearch

\* SemanticAnalyzer.analyze for an analysis that does not throw
analyze(url, analysis, now) ==
  IF analysis = "malformed" THEN fallbackModel(url, now)
  ELSE buildModel(url, Parsed(analysis), now)

(***************************************************************************)
(* TaskExecutor (store.ts 415-806).  The store and the executor's          *)
(* pageModels travel through a handler as one record st.                   *)
(***************************************************************************)
SETTLE_MS == 500

\* refreshModel for a session whose page is on url: the state it leaves, the
\* model it returns, whether it threw
refreshModel_LearnFirst(st, s, url, analysis, now) ==
  IF checkForCaptcha(url)
    THEN [st |-> st, model |-> buildCaptchaModel(url, now), threw |-> FALSE]
  ELSE IF getCachedModel(st.cache, url, now) # NoModel
    THEN [st |-> [st EXCEPT !.cache = getCachedModelEffect(st.cache, url, now),
                            !.models[s] = getCachedModel(st.cache, url, now)],
          model |-> getCachedModel(st.cache, url, now), threw |-> FALSE]
  ELSE IF analysis = "throw"
    THEN [st |-> [st EXCEPT !.knowledge = incrementVisitCount(st.knowledge, getDomain(url))],
          model |-> NoModel, threw |-> TRUE]
  ELSE LET model == analyze(url, analysis, now)
           domain == getDomain(url)
       IN [st |-> [st EXCEPT
                     !.knowledge = incrementVisitCount(st.knowledge, domain),
                     !.profiles = updateSiteProfile(st.profiles, domain, model.page_type, ""),
                     !.cache = cacheModel(st.cache, url, model, now),
                     !.models[s] = model],
           model |-> model, threw |-> FALSE]
refreshModel(st, s, url, analysis, now) ==
  IF checkForCaptcha(url)
    THEN [st |-> st, model |-> buildCaptchaModel(url, now), threw |-> FALSE]
  ELSE IF getCachedModel(st.cache, url, now) # NoModel
    THEN [st |-> [st EXCEPT !.cache = getCachedModelEffect(st.cache, url, now),
                            !.models[s] = getCachedModel(st.cache, url, now)],
          model |-> getCachedModel(st.cache, url, now), threw |-> FALSE]
  ELSE IF analysis = "throw"
    THEN [st |-> st, model |-> NoModel, threw |-> TRUE]
  ELSE LET model == analyze(url, analysis, now)
           domain == getDomain(url)
       IN [st |-> [st EXCEPT
                     !.knowledge = incrementVisitCount(st.knowledge, domain),
                     !.profiles = updateSiteProfile(st.profiles, domain, model.page_type, ""),
                     !.cache = cacheModel(st.cache, url, model, now),
                     !.models[s] = model],
           model |-> model, threw |-> FALSE]

\* whether refreshModel gets as far as asking for an analysis
NeedsAnalysis(st, url, now) ==
  ~checkForCaptcha(url) /\ getCachedModel(st.cache, url, now) = NoModel

ActionNames(model) ==
  [i \in 1..Len(model.available_actions) |-> model.available_actions[i].name]

\* model.available_actions.find((a) => a.name === actionName): its index, or 0
FindAction(model, actionName) ==
  IF \E i \in 1..Len(model.available_actions) : model.available_actions[i].name = actionName
    THEN CHOOSE i \in 1..Len(model.available_actions) :
           /\ model.available_actions[i].name = actionName
           /\ \A j \in 1..(i - 1) : model.available_actions[j].name # actionName
    ELSE 0

DriverCall(call, selector) == [call |-> call, selector |-> selector]

\* the fills of a field map: one per entry whose parameter was supplied and whose
\* selector is not empty, in the map's order
RECURSIVE FieldFills(_, _)
FieldFills(fieldMap, params) ==
  IF fieldMap = <<>> THEN <<>>
  ELSE (IF Head(fieldMap)[1] \in params /\ Head(fieldMap)[2] # ""
          THEN <<DriverCall("fill", Head(fieldMap)[2])>> ELSE <<>>)
       \o FieldFills(Tail(fieldMap), params)

\* performAction: the driver calls it makes if none of them throws, and whether
\* it then throws "no selector available"; one plan per selector that
\* getBestSelector may return
performAction_Guess(action, params, lib, domain) ==
  {[steps |-> <<DriverCall("click", "#" \o action.name)>>, throws |-> FALSE]}
performAction(action, params, lib, domain) ==
  LET internal == action.internal
      isClick == action.hinted /\ internal.type = "click" /\ internal.selector # ""
      isFill == action.hinted /\ internal.type \in {"fill", "form"} /\ internal.has_map
      fills == IF isFill THEN FieldFills(internal.field_map, params) ELSE <<>>
      isNavigate == action.hinted /\ internal.type = "navigate" /\ internal.selector # ""
  IN IF isClick
       THEN {[steps |-> <<DriverCall("click", internal.selector)>>, throws |-> FALSE]}
     ELSE IF isFill /\ internal.submit_selector # ""
       THEN {[steps |-> fills \o <<DriverCall("click", internal.submit_selector)>>,
              throws |-> FALSE]}
     ELSE IF isNavigate
       THEN {[steps |-> <<DriverCall(IF StartsWithHttp(internal.selector)
                                       THEN "navigate" ELSE "click",
                                     internal.selector)>>,
              throws |-> FALSE]}
     ELSE {IF remembered # Null
             THEN [steps |-> fills \o <<DriverCall("click", remembered)>>, throws |-> FALSE]
             ELSE [steps |-> fills, throws |-> TRUE]
           : remembered \in getBestSelector(lib, domain, action.name)}

\* the field-map selectors learnFromAction records, in order
RECURSIVE LearnFieldMap(_, _, _, _, _, _)
LearnFieldMap(lib, domain, actionName, fieldMap, success, now) ==
  IF fieldMap = <<>> THEN lib
  ELSE LearnFieldMap(
         recordSelectorOutcome(lib, domain, actionName \o "." \o Head(fieldMap)[1],
                               Head(fieldMap)[2], success, now),
         domain, actionName, Tail(fieldMap), success, now)

\* learnFromAction
learnFromAction_Nothing(lib, domain, actionName, action, success, now) == lib
learnFromAction(lib, domain, actionName, action, success, now) ==
  IF ~action.hinted THEN lib
  ELSE LET internal == action.internal
           lib1 == recordSelectorOutcome(lib, domain, actionName, internal.selector,
                                         success, now)
           lib2 == IF internal.has_map
                     THEN LearnFieldMap(lib1, domain, actionName, internal.field_map,
                                        success, now)
                     ELSE lib1
       IN recordSelectorOutcome(lib2, domain, actionName \o ".submit",
                                internal.submit_selector, success, now)

NoAction == ActionDefinition("", FALSE, NoInternal)

\* the last executor call: nothing yet.  analysis is what the translator answered
\* to the refresh of a navigate, refreshModel or getPageState call ("none": it
\* was not asked).  Of a fillForm call: supplied are the field names of data,
\* handled what became of each, errors the list it built, data_errors the
\* errors of the result's data (none: undefined).  resolved is the action executeAction
\* found in the model, unresolvable whether performAction ended in its
\* "Cannot execute" error (store.ts 710-713)
\* the state change of a call that built none
NoStateChange ==
  [navigated_to |-> Undefined, page_type_changed |-> Undefined,
   auth_state_changed |-> FALSE, form_submitted |-> FALSE, summary |-> ""]

\* buildSummary (store.ts 763-776)
buildSummary_TypeFirst(urlBefore, urlAfter, before, after) ==
  IF before.page_type # after.page_type
    THEN "Page changed from " \o before.page_type \o " to " \o after.page_type
  ELSE IF urlBefore # urlAfter
    THEN "Navigated from " \o before.page_type \o " to " \o after.page_type
           \o ". " \o after.task_status
  ELSE "Action completed. Page: " \o after.task_status
buildSummary(urlBefore, urlAfter, before, after) ==
  IF urlBefore # urlAfter
    THEN "Navigated from " \o before.page_type \o " to " \o after.page_type
           \o ". " \o after.task_status
  ELSE IF before.page_type # after.page_type
    THEN "Page changed from " \o before.page_type \o " to " \o after.page_type
  ELSE "Action completed. Page: " \o after.task_status

\* buildStateChange (store.ts 742-761)
buildStateChange(urlBefore, urlAfter, modelBefore, modelAfter) ==
  LET navigated == urlBefore # urlAfter
      typeChanged == modelBefore.page_type # modelAfter.page_type
  IN [navigated_to |-> IF navigated THEN Some(urlAfter) ELSE Undefined,
      page_type_changed |->
        IF typeChanged
          THEN Some([from |-> modelBefore.page_type, to |-> modelAfter.page_type])
          ELSE Undefined,
      auth_state_changed |->
        modelBefore.page_type = "login" /\ modelAfter.page_type # "login",
      form_submitted |-> Len(modelBefore.forms) > 0 /\ navigated,
      summary |-> buildSummary(urlBefore, urlAfter, modelBefore, modelAfter)]

\* state_change is what buildStateChange built for the result, NoStateChange
\* when the call did not get to it
NoLast ==
  [op |-> "", state_change |-> NoStateChange, session |-> "", action |-> "", at |-> 0, threw |-> FALSE,
   success |-> FALSE, error |-> "", reached |-> FALSE, performed |-> FALSE,
   drv |-> <<>>, url_before |-> NoPage, url_after |-> NoPage, model |-> NoModel,
   model_before |-> NoModel, next_actions |-> <<>>, lib_before |-> {}, cache_before |-> {},
   profiles_before |-> {}, resolved |-> NoAction, unresolvable |-> FALSE,
   analysis |-> "none", supplied |-> <<>>, handled |-> <<>>, errors |-> <<>>,
   data_errors |-> <<>>, message |-> "", knowledge_before |-> {},
   prev_op |-> "", prev_success |-> FALSE, clicked |-> {}]

\* names.join(', ')
RECURSIVE JoinNames(_)
JoinNames(names) ==
  IF names = <<>> THEN ""
  ELSE IF Len(names) = 1 THEN names[1]
  ELSE names[1] \o ", " \o JoinNames(Tail(names))

\* errorResult(message, currentModel): a failure with the current model's action
\* names as next_available_actions; error is the kind of the message
errorResult_NoActions(res, error, message, currentModel) ==
  [res EXCEPT !.success = FALSE, !.error = error, !.message = message,
              !.next_actions = <<>>]
errorResult(res, error, message, currentModel) ==
  [res EXCEPT !.success = FALSE, !.error = error, !.message = message,
              !.next_actions = ActionNames(currentModel)]

\* the driver calls issued, each with what checkForCaptcha says of the page it
\* is issued on
DriverTrace(steps, url) ==
  [i \in 1..Len(steps) |->
     [call |-> steps[i].call, selector |-> steps[i].selector,
      captcha |-> checkForCaptcha(url)]]

\* the profile note of a successful action
LeadsToNote(actionName, before, after) ==
  "action '" \o actionName \o "' on " \o before.page_type \o " leads to " \o after.page_type

\* invalidate cache on navigation (store.ts 508-511)
InvalidateOnNavigation_Never(st, urlBefore, urlAfter, domain) == st
InvalidateOnNavigation(st, urlBefore, urlAfter, domain) ==
  IF Href(urlAfter) # Href(urlBefore)
    THEN [st EXCEPT !.cache = invalidateCache(st.cache, domain)]
    ELSE st

\* performAction returned: no driver call threw and a selector was available
Performed(plan, failAt) == failAt = 0 /\ ~plan.throws

\* the page the session is on after performAction: a navigate call goes where
\* its URL says, a click where the site takes it, a failed attempt nowhere
UrlAfterPlan(urlBefore, plan, failAt, target) ==
  IF ~Performed(plan, failAt) THEN urlBefore
  ELSE IF plan.steps[Len(plan.steps)].call = "navigate"
    THEN navigateTarget(ParseHref(plan.steps[Len(plan.steps)].selector))
    ELSE target

\* (err as Error).message of the exception a driver call throws
DriverError(step) == step.call \o " " \o step.selector \o ": Timeout exceeded"

\* the message of the exception performAction ends in
PerformError(action, plan, failAt) ==
  IF failAt > 0 THEN DriverError(plan.steps[failAt])
  ELSE "Cannot execute '" \o action.name \o "' - no selector available. "
         \o "This action needs to be executed at least once with explicit selectors to learn from."

\* `Action '${actionName}' failed: ${(err as Error).message}`
FailedMessage(actionName, errMessage) ==
  "Action '" \o actionName \o "' failed: " \o errMessage

\* executeAction from the try block on (store.ts 494-536), for a resolved
\* action: plan is what performAction does, failAt the driver call that throws
\* (0: none), target the page a click leads to, analysis what the refresh gets.
\* Yields the state left, the page the session is on, the time, and the result.
executeResolved(st, s, model, action, params, urlBefore, plan, failAt, target, analysis, now) ==
  LET domain == getDomain(urlBefore)
      issued == IF failAt = 0 THEN plan.steps ELSE SubSeq(plan.steps, 1, failAt)
      performed == Performed(plan, failAt)
      urlNow == UrlAfterPlan(urlBefore, plan, failAt, target)
      settled == now + SETTLE_MS
      st1 == InvalidateOnNavigation(st, urlBefore, urlNow, domain)
      r == refreshModel(st1, s, urlNow, analysis, settled)
      base == [NoLast EXCEPT !.reached = TRUE, !.performed = performed,
                             !.drv = DriverTrace(issued, urlBefore),
                             !.resolved = action,
                             !.unresolvable = (failAt = 0 /\ plan.throws)]
  IN IF ~performed
       THEN [st |-> [st EXCEPT !.lib = learnFromAction(st.lib, domain, action.name,
                                                       action, FALSE, now)],
             url |-> urlNow, now |-> now,
             res |-> errorResult(base, "failed",
                                 FailedMessage(action.name, PerformError(action, plan, failAt)),
                                 model)]
     ELSE IF checkForCaptcha(urlNow)
       THEN [st |-> st, url |-> urlNow, now |-> settled,
             res |-> errorResult(base, "captcha", "CAPTCHA appeared after action.", model)]
     ELSE IF r.threw
       THEN [st |-> [r.st EXCEPT !.lib = learnFromAction(r.st.lib, domain, action.name,
                                                         action, FALSE, settled)],
             url |-> urlNow, now |-> settled,
             res |-> errorResult(base, "failed",
                                 FailedMessage(action.name, "translator failed"), model)]
     ELSE [st |-> [r.st EXCEPT
                     !.lib = learnFromAction(r.st.lib, domain, action.name, action,
                                             TRUE, settled),
                     !.profiles = updateSiteProfile(r.st.profiles, domain, r.model.page_type,
                                                    LeadsToNote(action.name, model, r.model))],
           url |-> urlNow, now |-> settled,
           res |-> [base EXCEPT !.success = TRUE, !.model = r.model,
                                !.state_change =
                                  buildStateChange(urlBefore, urlNow, model, r.model),
                                !.next_actions = ActionNames(r.model)]]

(***************************************************************************)
(* fillForm (store.ts 540-599)                                             *)
(***************************************************************************)
\* String.prototype.toLowerCase, on the names of the modelled pages and calls
toLowerCase(str) ==
  CASE str = "Login" -> "login"
    [] str = "Email" -> "email"
    [] str = "Password" -> "password"
    [] OTHER -> str

\* model.forms.find(...): the index of the first form of that name, or 0
FindForm(model, formName) ==
  IF \E i \in 1..Len(model.forms) :
       toLowerCase(model.forms[i].name) = toLowerCase(formName)
    THEN CHOOSE i \in 1..Len(model.forms) :
           /\ toLowerCase(model.forms[i].name) = toLowerCase(formName)
           /\ \A j \in 1..(i - 1) :
                toLowerCase(model.forms[j].name) # toLowerCase(formName)
    ELSE 0

FieldMatches(field, fieldName) ==
  \/ toLowerCase(field.name) = toLowerCase(fieldName)
  \/ toLowerCase(field.label) = toLowerCase(fieldName)

\* form.fields.find(...): the index of the first field of that name or label, or 0
FindField(form, fieldName) ==
  IF \E i \in 1..Len(form.fields) : FieldMatches(form.fields[i], fieldName)
    THEN CHOOSE i \in 1..Len(form.fields) :
           /\ FieldMatches(form.fields[i], fieldName)
           /\ \A j \in 1..(i - 1) : ~FieldMatches(form.fields[j], fieldName)
    ELSE 0

\* the loop over Object.entries(data) from acc on: acc.lib the selector library,
\* acc.errors the errors pushed, acc.drv the fills issued, acc.handled what
\* became of each field; failing are the fields whose engine.fill throws.  One
\* outcome per selector getBestSelector may return.
RECURSIVE FillFields(_, _, _, _, _, _)
FillFields(acc, domain, form, data, failing, now) ==
  IF data = <<>> THEN {acc}
  ELSE
    LET fieldName == Head(data)
        idx == FindField(form, fieldName)
    IN IF idx = 0
         THEN FillFields([acc EXCEPT
                            !.errors = Append(@, "Field '" \o fieldName \o "' not found"),
                            !.handled = Append(@, "not found")],
                         domain, form, Tail(data), failing, now)
       ELSE UNION {
         IF selector = Null
           THEN FillFields([acc EXCEPT
                              !.errors = Append(@, "No selector for '" \o fieldName \o "'"),
                              !.handled = Append(@, "no selector")],
                           domain, form, Tail(data), failing, now)
         ELSE IF fieldName \in failing
           THEN FillFields([acc EXCEPT
                              !.lib = recordSelectorOutcome(@, domain, "fill_" \o fieldName,
                                                            selector, FALSE, now),
                              !.errors = Append(@, "Could not fill '" \o fieldName \o "'"),
                              !.drv = Append(@, DriverCall("fill", selector)),
                              !.handled = Append(@, "failed")],
                           domain, form, Tail(data), failing, now)
         ELSE FillFields([acc EXCEPT
                            !.lib = recordSelectorOutcome(@, domain, "fill_" \o fieldName,
                                                          selector, TRUE, now),
                            !.drv = Append(@, DriverCall("fill", selector)),
                            !.handled = Append(@, "filled")],
                         domain, form, Tail(data), failing, now)
         : selector \in (IF form.fields[idx].selector # ""
                           THEN {form.fields[idx].selector}
                           ELSE getBestSelector(acc.lib, domain, "fill_" \o fieldName))}

(***************************************************************************)
(* Promises (runParallel, store.ts 634-658)                                *)
(***************************************************************************)
NoResult == [task_id |-> 0, success |-> FALSE, steps_taken |-> 0, output |-> NoModel]

Pending == [state |-> "pending", value |-> <<>>]
Fulfilled(value) == [state |-> "fulfilled", value |-> value]
Rejected == [state |-> "rejected", value |-> <<>>]

\* Promise.all over promises: rejected as soon as one of them is, fulfilled
\* with their values in order once all are; a settled promise stays as it is
PromiseAll(current, promises) ==
  IF current.state # "pending" THEN current
  ELSE IF \E i \in 1..Len(promises) : promises[i].state = "rejected" THEN Rejected
  ELSE IF \A i \in 1..Len(promises) : promises[i].state = "fulfilled"
    THEN Fulfilled([i \in 1..Len(promises) |-> promises[i].value])
  ELSE current

\* no runParallel call is in progress, no session is live
NoBatch ==
  /\ contexts = {}
  /\ tasks = <<>>
  /\ task_pc = <<>>
  /\ task_outcome = <<>>
  /\ task_promise = <<>>
  /\ batch = Pending

(***************************************************************************)
(* Initial state: an empty database, the clock at 0                        *)
(***************************************************************************)
KnowDomains == {"x.com", "y.com"}
SavedIds == {"a", "b"}

NoKnowHist == [d \in KnowDomains |-> [notes |-> <<>>, types |-> {}, visits |-> 0]]

\* no saved session, no call in flight, nothing recorded yet
InitSide ==
  /\ sessions = {}
  /\ requests = <<>>
  /\ knowHist = NoKnowHist
  /\ sessHist = [id \in SavedIds |-> <<>>]
  /\ sessionId = Null
  /\ activeSession = Null

InitStore ==
  /\ clock = 0
  /\ page_model_cache = {}
  /\ selector_library = {}
  /\ ret = NoRet
  /\ nOps = 0
  /\ nTicks = 0
  /\ lastWrite = [p \in Patterns |-> NoTime]
  /\ hist = [k \in SelKeys |-> <<>>]
  /\ cacheHist = [p \in Patterns |-> <<>>]
  /\ InitSide
  /\ site_profiles = {}
  /\ site_knowledge = {}
  /\ pageModels = [s \in ExecSessions |-> NoModel]
  /\ last = NoLast
  /\ NoBatch

Init ==
  /\ InitStore
  /\ pages = [s \in ExecSessions |-> NoPage]
  /\ recScript = [s \in ConcSessions |-> <<>>]
  /\ recDone = [s \in ConcSessions |-> 0]

(***************************************************************************)
(* The cache specification: calls of the cache and the passing of time     *)
(***************************************************************************)
Call_cacheModel ==
  \E u \in CacheUrls, m \in CacheModels :
    /\ nOps < MaxCacheOps
    /\ page_model_cache' = cacheModel(page_model_cache, u, m, clock)
    /\ lastWrite' = [lastWrite EXCEPT ![normalizeUrl(u)] = clock]
    /\ cacheHist' = [cacheHist EXCEPT ![normalizeUrl(u)] = Append(@, m)]
    /\ ret' = [NoRet EXCEPT !.op = "cacheModel", !.pattern = normalizeUrl(u), !.at = clock,
                            !.url = u, !.model = m]
    /\ nOps' = nOps + 1
    /\ UNCHANGED <<clock, selector_library, nTicks, hist, concVars, sideVars, execVars, parVars>>

Call_getCachedModel ==
  \E u \in CacheUrls :
    /\ nOps < MaxCacheOps
    /\ page_model_cache' = getCachedModelEffect(page_model_cache, u, clock)
    /\ ret' = [NoRet EXCEPT
                 !.op = "getCachedModel", !.pattern = normalizeUrl(u), !.at = clock,
                 !.url = u, !.prev_op = ret.op, !.prev_url = ret.url,
                 !.prev_model = ret.model,
                 !.model = getCachedModel(page_model_cache, u, clock),
                 !.hits = IF HasCacheRow(page_model_cache, normalizeUrl(u))
                            THEN CacheRow(page_model_cache, normalizeUrl(u)).hit_count
                            ELSE 0]
    /\ nOps' = nOps + 1
    /\ UNCHANGED <<clock, selector_library, nTicks, histVars, concVars, sideVars, execVars, parVars>>

Call_invalidateCache ==
  \E d \in CacheDomains :
    /\ nOps < MaxCacheOps
    /\ page_model_cache' = invalidateCache(page_model_cache, d)
    /\ ret' = [NoRet EXCEPT !.op = "invalidateCache", !.domain = d, !.at = clock]
    /\ nOps' = nOps + 1
    /\ cacheHist' = [p \in Patterns |->
                       IF \E r \in page_model_cache : r.url_pattern = p /\ r.domain = d
                         THEN <<>> ELSE cacheHist[p]]
    /\ UNCHANGED <<clock, selector_library, nTicks, lastWrite, hist, concVars, sideVars, execVars,
                   parVars>>

Tick ==
  \E delta \in TickDeltas :
    /\ nTicks < MaxTicks
    /\ clock' = clock + delta
    /\ nTicks' = nTicks + 1
    /\ ret' = NoRet
    /\ UNCHANGED <<page_model_cache, selector_library, nOps, histVars, concVars, sideVars, execVars, parVars>>

NextCache == Call_cacheModel \/ Call_getCachedModel \/ Call_invalidateCache \/ Tick

SpecCache == Init /\ [][NextCache]_vars

(***************************************************************************)
(* The selector specification: outcomes recorded and the best selector read*)
(***************************************************************************)
Call_recordSelectorOutcome ==
  \E k \in SelInputs, success \in BOOLEAN :
    /\ nOps < MaxOutcomes
    /\ selector_library' =
         recordSelectorOutcome(selector_library, k[1], k[2], k[3], success, clock)
    /\ hist' = IF k[3] = "" THEN hist ELSE [hist EXCEPT ![k] = Append(@, success)]
    /\ ret' = [NoRet EXCEPT !.op = "recordSelectorOutcome"]
    /\ nOps' = IF k[3] = "" THEN nOps ELSE nOps + 1
    /\ UNCHANGED <<clock, page_model_cache, nTicks, lastWrite, cacheHist, concVars, sideVars, execVars,
                   parVars>>

Call_getBestSelector ==
  \E d \in SelDomains, a \in SelActions :
    \E v \in getBestSelector(selector_library, d, a) :
      /\ ret' = [NoRet EXCEPT !.op = "getBestSelector", !.domain = d, !.action = a,
                              !.selector = v]
      /\ UNCHANGED <<storeVars, countVars, histVars, concVars, sideVars, execVars, parVars>>

Call_getKnownSelectors ==
  \E d \in SelDomains :
    \E known \in getKnownSelectors(selector_library, d) :
      /\ ret' = [NoRet EXCEPT !.op = "getKnownSelectors", !.domain = d, !.known = known]
      /\ UNCHANGED <<storeVars, countVars, histVars, concVars, sideVars, execVars, parVars>>

NextSel == Call_recordSelectorOutcome \/ Call_getBestSelector \/ Call_getKnownSelectors

SpecSel == Init /\ [][NextSel]_vars

(***************************************************************************)
(* The concurrent specification: sessions that run at the same time each   *)
(* make their recordSelectorOutcome calls; a call is one synchronous       *)
(* statement, so the calls of different sessions interleave call by call.  *)
(***************************************************************************)
RecCalls == [key : ConcKeys, success : BOOLEAN]

InitConc ==
  /\ InitStore
  /\ pages = [s \in ExecSessions |-> NoPage]
  /\ recScript \in [ConcSessions -> SeqsUpTo(RecCalls, MaxCallsPerSession)]
  /\ recDone = [s \in ConcSessions |-> 0]

SessionRecords(s) ==
  /\ recDone[s] < Len(recScript[s])
  /\ LET call == recScript[s][recDone[s] + 1] IN
       selector_library' =
         recordSelectorOutcome(selector_library, call.key[1], call.key[2], call.key[3],
                               call.success, clock)
  /\ recDone' = [recDone EXCEPT ![s] = @ + 1]
  /\ UNCHANGED <<clock, page_model_cache, ret, countVars, histVars, recScript, sideVars, execVars,
                 parVars>>

NextConc == \E s \in ConcSessions : SessionRecords(s)

SpecConc == InitConc /\ [][NextConc]_vars

(***************************************************************************)
(* Claims about the Knowledge Store                                        *)
(***************************************************************************)

\* C1: getCachedModel returns a model only if the most recent cacheModel for the
\* normalized URL happened no more than CACHE_TTL_MS before the read; a hit adds
\* one to the hit counter and never moves the entry's last_updated, which stays
\* the time of the last write.
C1_NeverReturnedPastTtl ==
  /\ \A r \in page_model_cache : r.last_updated = lastWrite[r.url_pattern]
  /\ (ret.op = "getCachedModel" /\ ret.model # NoModel) =>
       /\ lastWrite[ret.pattern] # NoTime
       /\ ret.at - lastWrite[ret.pattern] <= CACHE_TTL_MS
       /\ HasCacheRow(page_model_cache, ret.pattern)
       /\ CacheRow(page_model_cache, ret.pattern).hit_count = ret.hits + 1

\* a second hit on an entry, exactly one time-to-live after its last write
C1_Witness ==
  /\ ret.op = "getCachedModel"
  /\ ret.model # NoModel
  /\ ret.hits >= 1
  /\ ret.at - lastWrite[ret.pattern] = CACHE_TTL_MS

\* C2: getBestSelector never returns a selector for which fewer than 2 outcomes
\* were recorded under (domain, action) or whose successes are less than half of
\* them; a key with a single recorded success is never returned.
C2_BestSelectorThreshold ==
  /\ (ret.op = "getBestSelector" /\ ret.selector # Null) =>
       LET k == <<ret.domain, ret.action, ret.selector>> IN
         /\ k \in SelKeys
         /\ Len(hist[k]) >= 2
         /\ 2 * Count(hist[k], TRUE) >= Len(hist[k])
  /\ \A k \in SelKeys :
       hist[k] = <<TRUE>> => k[3] \notin getBestSelector(selector_library, k[1], k[2])

\* the best selector was read and is absent while a selector of that action has
\* one recorded success and nothing else
C2_Witness ==
  /\ ret.op = "getBestSelector"
  /\ ret.selector = Null
  /\ \E k \in SelKeys : k[1] = ret.domain /\ k[2] = ret.action /\ hist[k] = <<TRUE>>

\* no other selector of the same (domain, action) has a record
OnlyKey(k) ==
  \A k2 \in SelKeys : (k2 # k /\ k2[1] = k[1] /\ k2[2] = k[2]) => hist[k2] = <<>>

\* two successes, then one further success and two further failures in any order
TwoThenOneAndTwo(h) ==
  Len(h) = 5 /\ h[1] /\ h[2] /\ Count(SubSeq(h, 3, 5), TRUE) = 1

\* C3 as stated (read with S the only selector recorded for (D, A)): from no
\* record, two successes make getBestSelector return S, and one further success
\* and two further failures make it return absent.
C3_Original ==
  \A k \in SelKeys :
    OnlyKey(k) =>
      /\ hist[k] = <<TRUE, TRUE>> =>
           getBestSelector(selector_library, k[1], k[2]) = {k[3]}
      /\ TwoThenOneAndTwo(hist[k]) =>
           getBestSelector(selector_library, k[1], k[2]) = {Null}

\* C3 amended: while S is the only selector recorded for (D, A), two successes
\* make getBestSelector return S; one further success and two further failures
\* leave it returning S (3 of 5); it returns absent exactly when fewer than half
\* of the recorded outcomes (at least 2) are successes.
C3_AccumulatedRatio ==
  \A k \in SelKeys :
    OnlyKey(k) =>
      /\ hist[k] = <<TRUE, TRUE>> =>
           getBestSelector(selector_library, k[1], k[2]) = {k[3]}
      /\ TwoThenOneAndTwo(hist[k]) =>
           getBestSelector(selector_library, k[1], k[2]) = {k[3]}
      /\ (Len(hist[k]) >= 2 /\ 2 * Count(hist[k], TRUE) < Len(hist[k])) =>
           getBestSelector(selector_library, k[1], k[2]) = {Null}

C3_Witness ==
  \E k \in SelKeys : OnlyKey(k) /\ TwoThenOneAndTwo(hist[k])

\* the calls of all sessions' scripts with this key and this outcome
RECURSIVE ScriptCount(_, _, _)
ScriptCount(among, key, success) ==
  IF among = {} THEN 0
  ELSE LET s == CHOOSE x \in among : TRUE IN
       Count(recScript[s], [key |-> key, success |-> success])
         + ScriptCount(among \ {s}, key, success)

AllRecorded == \A s \in ConcSessions : recDone[s] = Len(recScript[s])

\* C4: once every concurrent session has made its calls, each key has exactly
\* one record, whose success count is the number of calls with success = true
\* and whose failure count the number with success = false (no key, no record).
C4_NoLostIncrement ==
  AllRecorded =>
    \A k \in ConcKeys :
      LET rows == {r \in selector_library : SameKey(r, k[1], k[2], k[3])}
          t == ScriptCount(ConcSessions, k, TRUE)
          f == ScriptCount(ConcSessions, k, FALSE)
      IN IF t + f = 0 THEN rows = {}
         ELSE /\ Cardinality(rows) = 1
              /\ \A r \in rows : r.success_count = t /\ r.fail_count = f

\* two sessions have each made two calls on one key, successes and failures
C4_Witness ==
  /\ AllRecorded
  /\ \E k \in ConcKeys :
       /\ \A s \in ConcSessions :
            Len(recScript[s]) = 2 /\ \A i \in 1..2 : recScript[s][i].key = k
       /\ ScriptCount(ConcSessions, k, TRUE) = 2
       /\ ScriptCount(ConcSessions, k, FALSE) = 2

(***************************************************************************)
(* The executor specification: one session, created on about:blank, and    *)
(* the calls navigate, refreshModel, getPageState and executeAction, each  *)
(* a whole handler.  The database may hold what an earlier run learned.    *)
(***************************************************************************)
\* a selector library an earlier run leaves: "go" clicked twice through its hint
LearnedGo ==
  {[id |-> 1, domain |-> "x.com", action_name |-> "go", selector |-> "#go",
    success_count |-> 2, fail_count |-> 0, last_used |-> 0]}

\* and the password field filled twice through a selector the form once carried
LearnedFill ==
  {[id |-> 2, domain |-> "x.com", action_name |-> "fill_password", selector |-> "#p",
    success_count |-> 2, fail_count |-> 0, last_used |-> 0]}

\* and "home" run twice through its navigate hint, an absolute URL
LearnedHome ==
  {[id |-> 3, domain |-> "x.com", action_name |-> "home", selector |-> Href(UrlB),
    success_count |-> 2, fail_count |-> 0, last_used |-> 0]}

\* the clicks the driver was asked for in that earlier run
LearnedClicks == {<<"x.com", "go", "#go">>}

InitExec ==
  /\ clock = 0
  /\ page_model_cache = {}
  /\ \E earlier \in BOOLEAN :
       /\ selector_library =
            IF earlier THEN LearnedGo \cup LearnedFill \cup LearnedHome ELSE {}
       /\ last = [NoLast EXCEPT !.clicked = IF earlier THEN LearnedClicks ELSE {}]
  /\ ret = NoRet
  /\ nOps = 0
  /\ nTicks = 0
  /\ lastWrite = [p \in Patterns |-> NoTime]
  /\ hist = [k \in SelKeys |-> <<>>]
  /\ cacheHist = [p \in Patterns |-> <<>>]
  /\ InitSide
  /\ recScript = [s \in ConcSessions |-> <<>>]
  /\ recDone = [s \in ConcSessions |-> 0]
  /\ site_profiles = {}
  /\ site_knowledge = {}
  /\ pages = [s \in ExecSessions |-> AboutBlank]
  /\ pageModels = [s \in ExecSessions |-> NoModel]
  /\ contexts = ExecSessions
  /\ tasks = <<>>
  /\ task_pc = <<>>
  /\ task_outcome = <<>>
  /\ task_promise = <<>>
  /\ batch = Pending

Store ==
  [cache |-> page_model_cache, lib |-> selector_library, profiles |-> site_profiles,
   knowledge |-> site_knowledge, models |-> pageModels]

\* the handler leaves the store and pageModels as st
Leaves(st) ==
  /\ page_model_cache' = st.cache
  /\ selector_library' = st.lib
  /\ site_profiles' = st.profiles
  /\ site_knowledge' = st.knowledge
  /\ pageModels' = st.models

\* the clicks the driver had been asked for, by domain and action name, when
\* the call l had returned
ClickedAfter(l) ==
  l.clicked \cup
    {<<getDomain(l.url_before), l.resolved.name, l.drv[i].selector>> :
       i \in {j \in 1..Len(l.drv) : l.op = "executeAction" /\ l.drv[j].call = "click"}}

\* what the call records about the state it started in
Started(op, s) ==
  [NoLast EXCEPT !.op = op, !.session = s, !.at = clock, !.url_before = pages[s],
                 !.clicked = ClickedAfter(last),
                 !.model_before = pageModels[s], !.lib_before = selector_library,
                 !.cache_before = page_model_cache, !.profiles_before = site_profiles,
                 !.knowledge_before = site_knowledge]

\* the analyses a refresh of url may get: only one that is asked for matters
AnalysesFor(st, url, now) ==
  IF NeedsAnalysis(st, url, now) THEN Analyses ELSE {"none"}

ExecFrame == UNCHANGED <<ret, nTicks, histVars, concVars, sideVars, parVars>>

\* the session exists and has been taken to a page of the site
Navigated(s) == pages[s] \notin {NoPage, AboutBlank}

\* navigate(sessionId, url): engine.navigate, which may throw, then refreshModel
Call_navigate ==
  \E s \in ExecSessions, url \in ExecUrls, arrives \in BOOLEAN :
    /\ nOps < MaxExecOps
    /\ pages[s] # NoPage
    /\ nOps' = nOps + 1
    /\ ExecFrame
    /\ UNCHANGED clock
    /\ IF ~arrives
         THEN /\ Leaves(Store)
              /\ UNCHANGED pages
              /\ last' = [Started("navigate", s) EXCEPT !.threw = TRUE, !.url_after = pages[s]]
         ELSE \E analysis \in AnalysesFor(Store, navigateTarget(url), clock) :
                LET r == refreshModel(Store, s, navigateTarget(url), analysis, clock) IN
                  /\ Leaves(r.st)
                  /\ pages' = [pages EXCEPT ![s] = navigateTarget(url)]
                  /\ last' = [Started("navigate", s) EXCEPT
                                !.threw = r.threw, !.success = ~r.threw, !.model = r.model,
                                !.analysis = analysis,
                                !.url_after = navigateTarget(url)]

\* refreshModel(sessionId)
Call_refreshModel ==
  \E s \in ExecSessions :
    /\ nOps < MaxExecOps
    /\ Navigated(s)
    /\ nOps' = nOps + 1
    /\ ExecFrame
    /\ UNCHANGED <<clock, pages>>
    /\ \E analysis \in AnalysesFor(Store, pages[s], clock) :
         LET r == refreshModel(Store, s, pages[s], analysis, clock) IN
           /\ Leaves(r.st)
           /\ last' = [Started("refreshModel", s) EXCEPT
                         !.threw = r.threw, !.success = ~r.threw, !.model = r.model,
                                !.analysis = analysis,
                         !.url_after = pages[s]]

\* getPageState(sessionId): pageModels.get(sessionId) ?? refreshModel(sessionId)
Call_getPageState ==
  \E s \in ExecSessions :
    /\ nOps < MaxExecOps
    /\ Navigated(s)
    /\ nOps' = nOps + 1
    /\ ExecFrame
    /\ UNCHANGED <<clock, pages>>
    /\ IF pageModels[s] # NoModel
         THEN /\ Leaves(Store)
              /\ last' = [Started("getPageState", s) EXCEPT
                            !.success = TRUE, !.model = pageModels[s], !.url_after = pages[s]]
         ELSE \E analysis \in AnalysesFor(Store, pages[s], clock) :
                LET r == refreshModel(Store, s, pages[s], analysis, clock) IN
                  /\ Leaves(r.st)
                  /\ last' = [Started("getPageState", s) EXCEPT
                                !.threw = r.threw, !.success = ~r.threw, !.model = r.model,
                                !.analysis = analysis,
                                !.url_after = pages[s]]

ActionInputs == {"login", "search", "go", "home", "nope"}

\* the parameters a call may supply
ParamInputs(actionName) ==
  IF actionName = "login" THEN SUBSET {"email", "password"}
  ELSE IF actionName = "search" THEN SUBSET {"q"}
  ELSE {{}}

\* the pages a plan's last driver call may lead to
Targets(plan, failAt, url) ==
  IF failAt = 0 /\ ~plan.throws /\ plan.steps[Len(plan.steps)].call = "click"
    THEN ExecUrls ELSE {url}

\* the analyses the refresh after the action may get
PostAnalyses(st, urlBefore, plan, failAt, target, now) ==
  IF Performed(plan, failAt)
    THEN AnalysesFor(InvalidateOnNavigation(st, urlBefore,
                                            UrlAfterPlan(urlBefore, plan, failAt, target),
                                            getDomain(urlBefore)),
                     UrlAfterPlan(urlBefore, plan, failAt, target), now + SETTLE_MS)
    ELSE {"none"}

\* executeAction(sessionId, actionName, params)
Call_executeAction ==
  \E s \in ExecSessions, actionName \in ActionInputs :
    \E params \in ParamInputs(actionName) :
      /\ nOps < MaxExecOps
      /\ Navigated(s)
      /\ nOps' = nOps + 1
      /\ ExecFrame
      /\ \E analysis0 \in (IF pageModels[s] = NoModel
                             THEN AnalysesFor(Store, pages[s], clock) ELSE {"none"}) :
           LET got == IF pageModels[s] # NoModel
                        THEN [st |-> Store, model |-> pageModels[s], threw |-> FALSE]
                        ELSE refreshModel(Store, s, pages[s], analysis0, clock)
               idx == FindAction(got.model, actionName)
               start == [Started("executeAction", s) EXCEPT !.action = actionName]
           IN IF got.threw
                THEN /\ Leaves(got.st)
                     /\ UNCHANGED <<clock, pages>>
                     /\ last' = [start EXCEPT !.threw = TRUE, !.url_after = pages[s]]
              ELSE IF idx = 0
                THEN /\ Leaves(got.st)
                     /\ UNCHANGED <<clock, pages>>
                     /\ last' = errorResult([start EXCEPT !.url_after = pages[s]],
                                             "not available",
                                             "Action '" \o actionName
                                               \o "' not available. Available: "
                                               \o JoinNames(ActionNames(got.model)),
                                             got.model)
              ELSE LET action == got.model.available_actions[idx] IN
                   \E plan \in performAction(action, params, got.st.lib, getDomain(pages[s])) :
                     \E failAt \in 0..Len(plan.steps) :
                       \E target \in Targets(plan, failAt, pages[s]) :
                         \E analysis \in PostAnalyses(got.st, pages[s], plan, failAt, target,
                                                      clock) :
                           LET done == executeResolved(got.st, s, got.model, action, params,
                                                       pages[s], plan, failAt, target,
                                                       analysis, clock)
                           IN /\ Leaves(done.st)
                              /\ pages' = [pages EXCEPT ![s] = done.url]
                              /\ clock' = done.now
                              /\ last' = [done.res EXCEPT
                                            !.op = start.op, !.session = s,
                                            !.action = actionName, !.at = start.at,
                                            !.url_before = start.url_before,
                                            !.model_before = start.model_before,
                                            !.lib_before = start.lib_before,
                                            !.cache_before = start.cache_before,
                                            !.profiles_before = start.profiles_before,
                                            !.knowledge_before = start.knowledge_before,
                                            !.clicked = start.clicked,
                                            !.url_after = done.url]

FormInputs == {"login", "nope"}

\* the field names of data, in the order of Object.entries
DataInputs == {<<"Email">>, <<"ghost", "Email">>, <<"password", "Email">>}

\* fillForm(sessionId, formName, data)
Call_fillForm ==
  \E s \in ExecSessions, formName \in FormInputs, data \in DataInputs,
     failing \in SUBSET {"Email", "password"} :
    /\ nOps < MaxExecOps
    /\ Navigated(s)
    /\ nOps' = nOps + 1
    /\ ExecFrame
    /\ UNCHANGED <<clock, pages>>
    /\ \E analysis0 \in (IF pageModels[s] = NoModel
                           THEN AnalysesFor(Store, pages[s], clock) ELSE {"none"}) :
         LET got == IF pageModels[s] # NoModel
                      THEN [st |-> Store, model |-> pageModels[s], threw |-> FALSE]
                      ELSE refreshModel(Store, s, pages[s], analysis0, clock)
             idx == FindForm(got.model, formName)
             start == [Started("fillForm", s) EXCEPT !.action = formName,
                                                     !.url_after = pages[s]]
         IN IF got.threw
              THEN /\ Leaves(got.st)
                   /\ last' = [start EXCEPT !.threw = TRUE]
            ELSE IF idx = 0
              THEN /\ Leaves(got.st)
                   /\ last' = errorResult(start, "not available",
                                           "Form '" \o formName \o "' not found",
                                           got.model)
            ELSE \E filled \in FillFields([lib |-> got.st.lib, errors |-> <<>>,
                                           drv |-> <<>>, handled |-> <<>>],
                                          getDomain(pages[s]), got.model.forms[idx],
                                          data, failing, clock) :
                   LET st1 == [got.st EXCEPT !.lib = filled.lib] IN
                   \E analysis \in AnalysesFor(st1, pages[s], clock) :
                     LET r == refreshModel(st1, s, pages[s], analysis, clock)
                         done == [start EXCEPT
                                    !.reached = TRUE, !.supplied = data,
                                    !.handled = filled.handled, !.errors = filled.errors,
                                    !.drv = DriverTrace(filled.drv, pages[s])]
                     IN /\ Leaves(r.st)
                        /\ last' = IF r.threw
                                     THEN [done EXCEPT !.threw = TRUE]
                                     ELSE [done EXCEPT
                                             !.success = (filled.errors = <<>>),
                                             !.data_errors = filled.errors,
                                             !.model = r.model,
                                             !.state_change =
                                               buildStateChange(pages[s], pages[s],
                                                                got.model, r.model),
                                             !.next_actions = ActionNames(r.model)]

NextExec ==
  \/ Call_navigate
  \/ Call_refreshModel
  \/ Call_getPageState
  \/ Call_executeAction
  \/ Call_fillForm

SpecExec == InitExec /\ [][NextExec]_vars

(***************************************************************************)
(* Claims about executeAction                                              *)
(***************************************************************************)
\* the last call was an executeAction whose performAction returned and after
\* which the session is on another URL
ActedAndMoved ==
  /\ last.op = "executeAction"
  /\ last.performed
  /\ Href(last.url_after) # Href(last.url_before)

\* the cache entries of the pre-action domain written before the action settled
StaleRows(cache) ==
  {r \in cache : r.domain = getDomain(last.url_before)
                 /\ r.last_updated < last.at + SETTLE_MS}

\* C5 as stated: after an executeAction whose low-level execution succeeded and
\* that changed the session's URL, no cache entry of the pre-action domain
\* written before the action is left, whatever the post-action page is.
C5_Original ==
  ActedAndMoved => StaleRows(page_model_cache) = {}

\* C5 amended: after an executeAction whose low-level execution succeeded, that
\* changed the session's URL and after which no CAPTCHA was detected, no cache
\* entry of the pre-action domain written before the action is left and
\* getCachedModel returns none of them; when a CAPTCHA was detected after the
\* action, the entries the call started with are all still there.
C5_InvalidatedUnlessCaptcha ==
  ActedAndMoved =>
    IF last.error = "captcha"
      THEN last.cache_before \subseteq page_model_cache
      ELSE /\ StaleRows(page_model_cache) = {}
           /\ \A r \in StaleRows(last.cache_before), u \in ExecUrls :
                normalizeUrl(u) = r.url_pattern =>
                  getCachedModel(page_model_cache, u, clock) \in
                    {NoModel} \cup {m \in {last.model} : m.timestamp >= last.at + SETTLE_MS}

\* an action moved a session off a page whose domain had a cached entry, onto a
\* page that is no CAPTCHA
C5_Witness ==
  /\ ActedAndMoved
  /\ last.error # "captcha"
  /\ StaleRows(last.cache_before) # {}

\* C6: no driver click or fill is issued on a session while checkForCaptcha is
\* true of the page the session is on.
C6_NoDriverCallOnCaptcha ==
  \A i \in 1..Len(last.drv) :
    last.drv[i].call \in {"click", "fill"} => ~last.drv[i].captcha

\* the resolved action carries a fill or form hint with a field map
FillHinted(action) ==
  action.hinted /\ action.internal.type \in {"fill", "form"} /\ action.internal.has_map

\* C9: when the resolved action carries a fill-or-form hint with a field map,
\* the only click is that of the hint's submit selector, and performAction does
\* not end in the "Cannot execute" resolution error.
C9_StopsAtFirstTier ==
  (last.op = "executeAction" /\ last.reached /\ FillHinted(last.resolved)) =>
    /\ ~last.unresolvable
    /\ \A i \in 1..Len(last.drv) :
         last.drv[i].call = "click" =>
           /\ last.resolved.internal.submit_selector # ""
           /\ last.drv[i].selector = last.resolved.internal.submit_selector

\* the selectors whose record the last call created or changed
ChangedSelectors ==
  {r.selector : r \in selector_library \ last.lib_before}

\* the selectors the last call passed to the driver's click or fill
TouchedSelectors ==
  {last.drv[i].selector : i \in {j \in 1..Len(last.drv) : last.drv[j].call \in {"click", "fill"}}}

\* the record of the same key before the call, or one with no outcomes
RowBefore(r) ==
  IF \E b \in last.lib_before : SameKey(b, r.domain, r.action_name, r.selector)
    THEN CHOOSE b \in last.lib_before : SameKey(b, r.domain, r.action_name, r.selector)
    ELSE [r EXCEPT !.success_count = 0, !.fail_count = 0]

\* C10: after an executeAction that reached performAction and did not end on a
\* post-action CAPTCHA, the selectors whose records changed are exactly those
\* passed to the driver's click or fill, each record counting one more success
\* if the call succeeded and one more failure if it did not.
C10_RecordsWhatWasTouched ==
  (last.op = "executeAction" /\ last.reached /\ last.error # "captcha") =>
    /\ ChangedSelectors = TouchedSelectors
    /\ \A r \in selector_library \ last.lib_before :
         /\ r.success_count = RowBefore(r).success_count + (IF last.success THEN 1 ELSE 0)
         /\ r.fail_count = RowBefore(r).fail_count + (IF last.success THEN 0 ELSE 1)

(***************************************************************************)
(* The parallel specification: one runParallel call.  Promise.all starts   *)
(* every runTask; each is at one of its awaits (createSession, navigate,   *)
(* destroySession) and the tasks interleave await by await.  Each driver   *)
(* or translator operation may fail.                                       *)
(***************************************************************************)
\* the ids createSession gives the sessions (randomUUID), by task
SessionIds == <<"t1", "t2", "t3", "t4">>

SessionOf(i) == SessionIds[i]

ParSessions == {SessionIds[i] : i \in 1..MaxTasks}

ParUrls == {UrlA, UrlCaptcha}

TaskLists ==
  UNION {{[i \in 1..n |-> [id |-> i, url |-> urls[i]]] : urls \in [1..n -> ParUrls]}
         : n \in 1..MaxTasks}

InitPar ==
  /\ clock = 0
  /\ page_model_cache = {}
  /\ selector_library = {}
  /\ ret = NoRet
  /\ nOps = 0
  /\ nTicks = 0
  /\ lastWrite = [p \in Patterns |-> NoTime]
  /\ hist = [k \in SelKeys |-> <<>>]
  /\ cacheHist = [p \in Patterns |-> <<>>]
  /\ InitSide
  /\ recScript = [s \in ConcSessions |-> <<>>]
  /\ recDone = [s \in ConcSessions |-> 0]
  /\ site_profiles = {}
  /\ site_knowledge = {}
  /\ pages = [s \in ParSessions |-> NoPage]
  /\ pageModels = [s \in ParSessions |-> NoModel]
  /\ last = NoLast
  /\ contexts = {}
  /\ tasks \in TaskLists
  /\ task_pc = [i \in 1..Len(tasks) |-> "createSession"]
  /\ task_outcome = [i \in 1..Len(tasks) |-> NoResult]
  /\ task_promise = [i \in 1..Len(tasks) |-> Pending]
  /\ batch = Pending

ParFrame == UNCHANGED <<ret, countVars, histVars, concVars, sideVars, last, tasks, clock>>

\* const sessionId = await this.engine.createSession(), outside the try block:
\* a rejection rejects runTask's promise
Task_createSession(i) ==
  \E created \in BOOLEAN :
    /\ task_pc[i] = "createSession"
    /\ ParFrame
    /\ UNCHANGED <<page_model_cache, selector_library, site_profiles, site_knowledge,
                   pageModels, task_outcome>>
    /\ IF created
         THEN /\ contexts' = contexts \cup {SessionOf(i)}
              /\ pages' = [pages EXCEPT ![SessionOf(i)] = AboutBlank]
              /\ task_pc' = [task_pc EXCEPT ![i] = "navigate"]
              /\ UNCHANGED <<task_promise, batch>>
         ELSE /\ task_pc' = [task_pc EXCEPT ![i] = "settled"]
              /\ task_promise' = [task_promise EXCEPT ![i] = Rejected]
              /\ batch' = PromiseAll(batch, task_promise')
              /\ UNCHANGED <<contexts, pages>>

\* the try block: await this.navigate(sessionId, task.url), and the result the
\* try or the catch block returns once the finally block is through
Task_navigate(i) ==
  \E arrives \in BOOLEAN :
    /\ task_pc[i] = "navigate"
    /\ ParFrame
    /\ UNCHANGED <<contexts, task_promise, batch>>
    /\ task_pc' = [task_pc EXCEPT ![i] = "destroySession"]
    /\ IF ~arrives
         THEN /\ Leaves(Store)
              /\ UNCHANGED pages
              /\ task_outcome' = [task_outcome EXCEPT ![i] =
                                    [NoResult EXCEPT !.task_id = tasks[i].id]]
         ELSE \E analysis \in AnalysesFor(Store, navigateTarget(tasks[i].url), clock) :
                LET r == refreshModel(Store, SessionOf(i), navigateTarget(tasks[i].url),
                                      analysis, clock)
                IN /\ Leaves(r.st)
                   /\ pages' = [pages EXCEPT ![SessionOf(i)] = navigateTarget(tasks[i].url)]
                   /\ task_outcome' = [task_outcome EXCEPT ![i] =
                        IF r.threw
                          THEN [NoResult EXCEPT !.task_id = tasks[i].id]
                          ELSE [task_id |-> tasks[i].id, success |-> TRUE,
                                steps_taken |-> 1, output |-> r.model]]

\* the finally block: await this.engine.destroySession(sessionId).  When
\* ctx.close() rejects, the two delete calls are not reached and the rejection
\* replaces the result.
Task_destroySession(i) ==
  \E closed \in BOOLEAN :
    /\ task_pc[i] = "destroySession"
    /\ ParFrame
    /\ UNCHANGED <<page_model_cache, selector_library, site_profiles, site_knowledge,
                   pageModels, task_outcome>>
    /\ task_pc' = [task_pc EXCEPT ![i] = "settled"]
    /\ IF closed
         THEN /\ contexts' = contexts \ {SessionOf(i)}
              /\ pages' = [pages EXCEPT ![SessionOf(i)] = NoPage]
              /\ task_promise' = [task_promise EXCEPT ![i] = Fulfilled(task_outcome[i])]
         ELSE /\ UNCHANGED <<contexts, pages>>
              /\ task_promise' = [task_promise EXCEPT ![i] = Rejected]
    /\ batch' = PromiseAll(batch, task_promise')

NextPar ==
  \/ \E i \in 1..Len(tasks) : Task_createSession(i)
  \/ \E i \in 1..Len(tasks) : Task_navigate(i)
  \/ \E i \in 1..Len(tasks) : Task_destroySession(i)

SpecPar == InitPar /\ [][NextPar]_vars

(***************************************************************************)
(* Claims about runParallel                                                *)
(***************************************************************************)
\* C7: runParallel's promise is never rejected, and once it is fulfilled it
\* holds one result per task, in input order, each the result of that task's own
\* navigation.
C7_IsolatedResults ==
  /\ batch.state # "rejected"
  /\ batch.state = "fulfilled" =>
       /\ Len(batch.value) = Len(tasks)
       /\ \A i \in 1..Len(tasks) :
            batch.value[i].task_id = tasks[i].id /\ batch.value[i] = task_outcome[i]

\* C8: once runParallel's promise is settled, no session created for its tasks
\* is live in the driver.
C8_NoSessionLeftLive ==
  batch.state # "pending" => contexts = {}

(***************************************************************************)
(* Claims about refreshModel and getPageState                              *)
(***************************************************************************)
\* the last call was a navigate, refreshModel or getPageState
Refreshed == last.op \in {"navigate", "refreshModel", "getPageState"}

\* C11: whenever the translator fails during a refresh (it raises, or answers
\* with something that is no text or cannot be parsed), the refresh still
\* returns a model: the fallback model, of page type unknown, with an action and
\* a warning, and that model is the session's current model.
C11_FallbackOnTranslatorFailure ==
  (Refreshed /\ last.analysis \in {"malformed", "throw"}) =>
    /\ ~last.threw
    /\ last.model.page_type = "unknown"
    /\ last.model.available_actions # <<>>
    /\ last.model.warnings # <<>>
    /\ pageModels[last.session] = last.model

\* what getPageState(s) returns if it is called now: the entry of pageModels, or
\* without one what refreshModel returns (NoModel when it throws)
PageStateNow(s) ==
  IF pageModels[s] # NoModel THEN {pageModels[s]}
  ELSE {refreshModel(Store, s, pages[s], analysis, clock).model :
          analysis \in AnalysesFor(Store, pages[s], clock)}

\* C12: after a navigate or refreshModel call on a session has returned a model
\* (the CAPTCHA model included), a getPageState call made next on that session
\* returns that model.
C12_CurrentIsLatest ==
  (last.op \in {"navigate", "refreshModel"} /\ ~last.threw) =>
    PageStateNow(last.session) = {last.model}

(***************************************************************************)
(* Further claims about the Knowledge Store                                *)
(***************************************************************************)
\* the last model cached for a pattern since it was last invalidated
LastCached(pattern) == cacheHist[pattern][Len(cacheHist[pattern])]

\* C13: a getCachedModel for a URL whose pattern has been cached (once or
\* several times) and not invalidated since returns the model of the last
\* cacheModel if no more than CACHE_TTL_MS has passed since that call, and
\* nothing once more has passed.
C13_LastWriteWins ==
  (ret.op = "getCachedModel" /\ cacheHist[ret.pattern] # <<>>) =>
    IF ret.at - lastWrite[ret.pattern] <= CACHE_TTL_MS
      THEN ret.model = LastCached(ret.pattern)
      ELSE ret.model = NoModel

\* a model was cached, another was cached over it, and the read that follows
\* at once returns the second
C13_Witness ==
  /\ ret.op = "getCachedModel"
  /\ Len(cacheHist[ret.pattern]) = 2
  /\ cacheHist[ret.pattern][1] # cacheHist[ret.pattern][2]
  /\ ret.at = lastWrite[ret.pattern]
  /\ ret.model = cacheHist[ret.pattern][2]

\* the reference choice, from the outcomes recorded: the selectors of (D, A)
\* with at least 2 outcomes ...
RefCandidates(domain, actionName) ==
  {k \in SelKeys : k[1] = domain /\ k[2] = actionName /\ Len(hist[k]) >= 2}

\* ... of which k is preferred to j: a higher success ratio, or the same ratio
\* and more outcomes
RefPreferred(k, j) ==
  LET sk == Count(hist[k], TRUE)
      sj == Count(hist[j], TRUE)
  IN \/ sk * Len(hist[j]) > sj * Len(hist[k])
     \/ sk * Len(hist[j]) = sj * Len(hist[k]) /\ Len(hist[k]) > Len(hist[j])

\* ... the most preferred, if at least half of its outcomes are successes
RefChoice(domain, actionName) ==
  LET cands == RefCandidates(domain, actionName)
      best == {k \in cands : \A j \in cands : ~RefPreferred(j, k)}
  IN IF cands = {} THEN {Null}
     ELSE {IF 2 * Count(hist[k], TRUE) >= Len(hist[k]) THEN k[3] ELSE Null : k \in best}

\* C14: for every (D, A), what getBestSelector may return is the reference
\* choice computed from the outcomes recorded under (D, A) alone (where two
\* selectors agree in ratio and in attempts, either); a returned value is one
\* of them.
C14_BestIsReferenceChoice ==
  /\ \A d \in SelDomains, a \in SelActions :
       getBestSelector(selector_library, d, a) = RefChoice(d, a)
  /\ ret.op = "getBestSelector" => ret.selector \in RefChoice(ret.domain, ret.action)

\* two selectors of one action have the same ratio and the one returned has
\* more outcomes
C14_Witness ==
  /\ ret.op = "getBestSelector"
  /\ \E k, j \in RefCandidates(ret.domain, ret.action) :
       /\ Count(hist[k], TRUE) * Len(hist[j]) = Count(hist[j], TRUE) * Len(hist[k])
       /\ Len(hist[k]) > Len(hist[j])
       /\ ret.selector = k[3]

\* the selectors getKnownSelectors returned for an action
KnownFor(actionName) == {e[2] : e \in {x \in ret.known : x[1] = actionName}}

\* C15: what getKnownSelectors(D) returned has an entry for an action exactly
\* when getBestSelector(D, action) returns a selector, and the entry is that
\* selector.
C15_KnownAgreesWithBest ==
  ret.op = "getKnownSelectors" =>
    \A a \in SelActions :
      LET best == getBestSelector(selector_library, ret.domain, a) IN
        /\ KnownFor(a) = {} <=> best = {Null}
        /\ KnownFor(a) \subseteq best

(***************************************************************************)
(* Claims about fillForm                                                   *)
(***************************************************************************)
\* C16: a fillForm call whose form was found attempts every supplied field, a
\* fill for each one that has a field and a selector, whatever became of the
\* fields before it; it then returns, with success exactly when no error was
\* accumulated, and with the errors as data.
C16_PartialErrors ==
  (last.op = "fillForm" /\ last.reached) =>
    /\ Len(last.handled) = Len(last.supplied)
    /\ \A i \in 1..Len(last.supplied) :
         toLowerCase(last.supplied[i]) = "email" => last.handled[i] \in {"filled", "failed"}
    /\ ~last.threw
    /\ last.success <=> last.errors = <<>>
    /\ last.data_errors = last.errors

(***************************************************************************)
(* Further claims about executeAction                                      *)
(***************************************************************************)
\* the last call was an executeAction on a session with a current model, for an
\* action name that is not in it
UnknownAction ==
  /\ last.op = "executeAction"
  /\ last.model_before # NoModel
  /\ FindAction(last.model_before, last.action) = 0

\* C17: such a call returns a failure whose message lists the current model's
\* action names and whose next actions are those names, and it leaves the
\* session's page, the cache, the selector library, the profiles, the visit
\* counts, the clock and the current model as they were, issuing no driver call.
C17_UnknownActionHasNoEffect ==
  UnknownAction =>
    /\ ~last.threw /\ ~last.success /\ last.error = "not available"
    /\ last.message = "Action '" \o last.action \o "' not available. Available: "
                        \o JoinNames(ActionNames(last.model_before))
    /\ last.next_actions = ActionNames(last.model_before)
    /\ last.drv = <<>>
    /\ pages[last.session] = last.url_before
    /\ pageModels[last.session] = last.model_before
    /\ page_model_cache = last.cache_before
    /\ selector_library = last.lib_before
    /\ site_profiles = last.profiles_before
    /\ site_knowledge = last.knowledge_before
    /\ clock = last.at

\* an unknown action was asked of a session whose model has actions and whose
\* domain has cache entries and selector records
C17_Witness ==
  /\ UnknownAction
  /\ last.model_before.available_actions # <<>>
  /\ last.cache_before # {}
  /\ last.lib_before # {}

\* the last call was an executeAction in which a driver call raised
DriverRaised ==
  /\ last.op = "executeAction"
  /\ last.reached
  /\ ~last.performed
  /\ ~last.unresolvable

\* the selectors of an action's hint, each with the action name it is recorded
\* under
HintKeys(action) ==
  IF ~action.hinted THEN {}
  ELSE LET internal == action.internal IN
    {<<action.name, internal.selector>>}
      \cup {<<action.name \o "." \o internal.field_map[i][1], internal.field_map[i][2]>> :
              i \in 1..Len(internal.field_map)}
      \cup {<<action.name \o ".submit", internal.submit_selector>>}

\* the selector record of a key in a library: its successes and failures
Counts(lib, domain, key) ==
  IF \E r \in lib : SameKey(r, domain, key[1], key[2])
    THEN LET r == CHOOSE r \in lib : SameKey(r, domain, key[1], key[2])
         IN <<r.success_count, r.fail_count>>
    ELSE <<0, 0>>

handleNavigate(model) ==
  <<<<"page_type", model.page_type>>, <<"task_status", model.task_status>>,
    <<"key_data", model.key_data>>,
    <<"available_actions",
      [i \in 1..Len(model.available_actions) |->
         <<<<"name", model.available_actions[i].name>>>>]>>,
    <<"warnings", model.warnings>>, <<"url", model.url>>>>

\* handleGetPageState: the response text is JSON.stringify(model, null, 2)
handleGetPageState(model) == JSONstringify(model)

\* a model object that carries an execution hint
ModelExposesHint(model) ==
  \E i \in 1..Len(model.available_actions) : model.available_actions[i].hinted

\* a response text in which some action has an _internal member
TextExposesHint(text) ==
  \E i \in 1..Len(Member(text, "available_actions")) :
    HasMember(Member(text, "available_actions")[i], "_internal")

\* the last call returned a model to its caller
ReturnedModel ==
  /\ last.op \in {"navigate", "getPageState"}
  /\ ~last.threw

\* C20: no value handed to a caller carries an execution hint: neither the
\* model navigate and getPageState return, nor the tool responses built from it.
C20_HintNeverExposed ==
  ReturnedModel =>
    /\ ~ModelExposesHint(last.model)
    /\ ~TextExposesHint(handleNavigate(last.model))
    /\ ~TextExposesHint(handleGetPageState(last.model))

(***************************************************************************)
(* buildStateChange on its own (store.ts 742-776)                          *)
(***************************************************************************)
\* the models buildStateChange is given: with and without forms, login or not
ChangeModels ==
  {buildModel(UrlA, parsed, 0) :
     parsed \in {ParsedLogin, [ParsedLogin EXCEPT !.forms = <<>>],
                 ParsedSearch, [ParsedSearch EXCEPT !.forms = ParsedLogin.forms],
                 ParsedDashboard}}
    \cup {fallbackModel(UrlA, 0), buildCaptchaModel(UrlA, 0)}

ChangeUrls == {UrlA, UrlB}

ChangeInputs ==
  {[NoLast EXCEPT !.op = "input", !.url_before = ub, !.url_after = ua,
                  !.model_before = mb, !.model = ma] :
     ub \in ChangeUrls, ua \in ChangeUrls, mb \in ChangeModels, ma \in ChangeModels}

InitChange ==
  /\ clock = 0
  /\ page_model_cache = {}
  /\ selector_library = {}
  /\ ret = NoRet
  /\ nOps = 0
  /\ nTicks = 0
  /\ lastWrite = [p \in Patterns |-> NoTime]
  /\ hist = [k \in SelKeys |-> <<>>]
  /\ cacheHist = [p \in Patterns |-> <<>>]
  /\ InitSide
  /\ recScript = [s \in ConcSessions |-> <<>>]
  /\ recDone = [s \in ConcSessions |-> 0]
  /\ site_profiles = {}
  /\ site_knowledge = {}
  /\ pages = [s \in ExecSessions |-> NoPage]
  /\ pageModels = [s \in ExecSessions |-> NoModel]
  /\ last \in ChangeInputs
  /\ contexts = {}
  /\ tasks = <<>>
  /\ task_pc = <<>>
  /\ task_outcome = <<>>
  /\ task_promise = <<>>
  /\ batch = Pending

Call_buildStateChange ==
  /\ last.op = "input"
  /\ last' = [last EXCEPT !.op = "buildStateChange",
                          !.state_change = buildStateChange(last.url_before, last.url_after,
                                                            last.model_before, last.model)]
  /\ UNCHANGED <<storeVars, countVars, ret, histVars, concVars, sideVars, parVars,
                 site_profiles, site_knowledge, pages, pageModels>>

NextChange == Call_buildStateChange

SpecChange == InitChange /\ [][NextChange]_vars

Built == last.op = "buildStateChange"

\* C19: navigated_to is the after URL exactly when the URLs differ;
\* page_type_changed is (from, to) exactly when the classifications differ;
\* auth_state_changed exactly when the page was a login page and no longer is;
\* form_submitted exactly when the before model had a form and the URLs differ;
\* the summary is the navigation summary when the URLs differ, else the
\* classification-change summary when the classifications differ, else the
\* generic completion summary.
C19_StateChangeRecord ==
  Built =>
    LET sc == last.state_change
        from == last.model_before.page_type
        to == last.model.page_type
        urlsDiffer == last.url_before # last.url_after
        typesDiffer == from # to
    IN /\ (sc.navigated_to # Undefined) <=> urlsDiffer
       /\ urlsDiffer => sc.navigated_to = Some(last.url_after)
       /\ (sc.page_type_changed # Undefined) <=> typesDiffer
       /\ typesDiffer => sc.page_type_changed = Some([from |-> from, to |-> to])
       /\ sc.auth_state_changed <=> (from = "login" /\ to # "login")
       /\ sc.form_submitted <=> (last.model_before.forms # <<>> /\ urlsDiffer)
       /\ urlsDiffer =>
            sc.summary = "Navigated from " \o from \o " to " \o to \o ". "
                           \o last.model.task_status
       /\ (~urlsDiffer /\ typesDiffer) =>
            sc.summary = "Page changed from " \o from \o " to " \o to
       /\ (~urlsDiffer /\ ~typesDiffer) =>
            sc.summary = "Action completed. Page: " \o last.model.task_status

\* a login page with a form, left for a dashboard at another URL
C19_Witness ==
  /\ Built
  /\ last.model_before.page_type = "login"
  /\ last.model_before.forms # <<>>
  /\ last.model.page_type = "dashboard"
  /\ last.url_before # last.url_after
  /\ last.state_change.auth_state_changed
  /\ last.state_change.form_submitted

\* the models the core holds: each session's current model and every cache row
HeldModels ==
  {pageModels[s] : s \in DOMAIN pageModels} \cup {JSONparse(r.model_json) : r \in page_model_cache}

\* C21: a model adopted as a session's current model or written into the cache
\* holds at most MAX_KEY_DATA key_data entries, whatever the translator returned.
C21_KeyDataBounded ==
  \A model \in HeldModels : Len(model.key_data) <= MAX_KEY_DATA

(***************************************************************************)
(* The profile specification: updateSiteProfile calls on profiles that     *)
(* earlier calls have filled (store.ts 200-225)                            *)
(***************************************************************************)
Note(i) == "note " \o ToString(i)

FirstNotes(n) == [i \in 1..n |-> Note(i)]

\* how many notes earlier calls have left in the profile of x.com: none (no
\* profile yet), one short of the limit, the limit
EarlierNotes == {0, MaxNotes - 1, MaxNotes}

ProfTypes == {"login", "search"}
ProfNotes == {"", Note(1), Note(2), Note(MaxNotes), Note(MaxNotes + 1), Note(MaxNotes + 2)}

\* the store after updateSiteProfile("x.com", "login", Note(i)) for i = 1..n
ProfilesAfter(n) ==
  IF n = 0 THEN {}
  ELSE {[domain |-> "x.com", page_types |-> <<"login">>, notes |-> FirstNotes(n)]}

KnowHistAfter(n) ==
  IF n = 0 THEN NoKnowHist
  ELSE [NoKnowHist EXCEPT !["x.com"] = [notes |-> FirstNotes(n), types |-> {"login"},
                                        visits |-> 0]]

InitProf ==
  /\ clock = 0
  /\ page_model_cache = {}
  /\ selector_library = {}
  /\ ret = NoRet
  /\ nOps = 0
  /\ nTicks = 0
  /\ lastWrite = [p \in Patterns |-> NoTime]
  /\ hist = [k \in SelKeys |-> <<>>]
  /\ cacheHist = [p \in Patterns |-> <<>>]
  /\ recScript = [s \in ConcSessions |-> <<>>]
  /\ recDone = [s \in ConcSessions |-> 0]
  /\ site_knowledge = {}
  /\ pages = [s \in ExecSessions |-> NoPage]
  /\ pageModels = [s \in ExecSessions |-> NoModel]
  /\ last = NoLast
  /\ NoBatch
  /\ sessions = {}
  /\ requests = <<>>
  /\ sessHist = [id \in SavedIds |-> <<>>]
  /\ sessionId = Null
  /\ activeSession = Null
  /\ \E n \in EarlierNotes :
       /\ site_profiles = ProfilesAfter(n)
       /\ knowHist = KnowHistAfter(n)

\* a note is accepted when it is not empty and not in the list already
Accepted(profiles, domain, note) ==
  /\ note # ""
  /\ ~(HasProfile(profiles, domain) /\ SeqIncludes(ProfileOf(profiles, domain).notes, note))

Call_updateSiteProfile ==
  \E d \in KnowDomains, pageType \in ProfTypes, note \in ProfNotes :
    /\ nOps < MaxProfileOps
    /\ nOps' = nOps + 1
    /\ site_profiles' = updateSiteProfile(site_profiles, d, pageType, note)
    /\ knowHist' = [knowHist EXCEPT
                      ![d].types = @ \cup {pageType},
                      ![d].notes = IF Accepted(site_profiles, d, note)
                                     THEN Append(@, note) ELSE @]
    /\ ret' = [NoRet EXCEPT !.op = "updateSiteProfile", !.domain = d]
    /\ UNCHANGED <<storeVars, nTicks, lastWrite, hist, cacheHist, concVars, parVars,
                   sessions, requests, sessHist, frontVars,
                   site_knowledge, pages, pageModels, last>>

NextProf == Call_updateSiteProfile

SpecProf == InitProf /\ [][NextProf]_vars

\* the last n elements of a sequence, all of it when it is shorter
LastOf(q, n) == IF Len(q) <= n THEN q ELSE SubSeq(q, Len(q) - n + 1, Len(q))

NoDuplicate(q) == \A i, j \in 1..Len(q) : q[i] = q[j] => i = j

SeqRange(q) == {q[i] : i \in 1..Len(q)}

InitKnow ==
  /\ clock = 0
  /\ page_model_cache = {}
  /\ selector_library = {}
  /\ ret = NoRet
  /\ nOps = 0
  /\ nTicks = 0
  /\ lastWrite = [p \in Patterns |-> NoTime]
  /\ hist = [k \in SelKeys |-> <<>>]
  /\ cacheHist = [p \in Patterns |-> <<>>]
  /\ recScript = [s \in ConcSessions |-> <<>>]
  /\ recDone = [s \in ConcSessions |-> 0]
  /\ site_knowledge = {}
  /\ pages = [s \in ExecSessions |-> NoPage]
  /\ pageModels = [s \in ExecSessions |-> NoModel]
  /\ last = NoLast
  /\ NoBatch
  /\ sessions = {}
  /\ requests = <<>>
  /\ sessHist = [id \in SavedIds |-> <<>>]
  /\ sessionId = Null
  /\ activeSession = Null
  /\ \E earlier \in BOOLEAN :
       /\ site_profiles = IF earlier
                            THEN {[domain |-> "x.com", page_types |-> <<"login">>,
                                   notes |-> <<>>]}
                            ELSE {}
       /\ knowHist = IF earlier
                       THEN [NoKnowHist EXCEPT !["x.com"].types = {"login"}]
                       ELSE NoKnowHist

KnowFrame ==
  UNCHANGED <<clock, page_model_cache, nTicks, lastWrite, hist, cacheHist, concVars, parVars,
              sessions, requests, sessHist, frontVars, site_profiles, pages, pageModels,
              last>>

Know_incrementVisitCount ==
  \E d \in KnowDomains :
    /\ nOps < MaxKnowOps
    /\ nOps' = nOps + 1
    /\ site_knowledge' = incrementVisitCount(site_knowledge, d)
    /\ knowHist' = [knowHist EXCEPT ![d].visits = @ + 1]
    /\ ret' = [NoRet EXCEPT !.op = "incrementVisitCount", !.domain = d]
    /\ UNCHANGED selector_library
    /\ KnowFrame

KnowSelectors == {"#a", "#b"}
KnowCounts == {0, 2}

Know_recordSelectorOutcome ==
  \E selector \in KnowSelectors, success \in BOOLEAN :
    /\ nOps < MaxKnowOps
    /\ nOps' = nOps + 1
    /\ selector_library' =
         recordSelectorOutcome(selector_library, "x.com", "login", selector, success, clock)
    /\ ret' = [NoRet EXCEPT !.op = "recordSelectorOutcome", !.domain = "x.com"]
    /\ UNCHANGED <<site_knowledge, knowHist>>
    /\ KnowFrame

Know_saveSiteKnowledge ==
  \E visitCount \in KnowCounts :
    /\ nOps < MaxKnowOps
    /\ nOps' = nOps + 1
    /\ site_knowledge' = saveSiteKnowledge(site_knowledge, "x.com", visitCount)
    /\ ret' = [NoRet EXCEPT !.op = "saveSiteKnowledge", !.domain = "x.com"]
    /\ UNCHANGED <<selector_library, knowHist>>
    /\ KnowFrame

Know_buildLLMContext ==
  \E d \in KnowDomains :
    \E known \in getKnownSelectors(selector_library, d) :
      /\ ret' = [NoRet EXCEPT !.op = "buildLLMContext", !.domain = d, !.known = known,
                              !.context = buildLLMContext(site_profiles, site_knowledge,
                                                          known, d)]
      /\ UNCHANGED <<nOps, selector_library, site_knowledge, knowHist>>
      /\ KnowFrame

NextKnow ==
  \/ Know_incrementVisitCount
  \/ Know_recordSelectorOutcome
  \/ Know_saveSiteKnowledge
  \/ Know_buildLLMContext

SpecKnow == InitKnow /\ [][NextKnow]_vars

BuiltContext == ret.op = "buildLLMContext"

\* the store holds nothing about the domain: no profile, no visit recorded, no
\* selector with two attempts and at least half of them successes
NoKnowledgeOf(d) ==
  /\ ~HasProfile(site_profiles, d)
  /\ ~\E r \in site_knowledge : r.domain = d
  /\ ~\E r \in selector_library : r.domain = d /\ Attempts(r) >= 2 /\ ~RateBelowHalf(r)

\* C23: buildLLMContext(D) is undefined exactly when the store holds no profile,
\* no recorded visit and no selector meeting the thresholds for D.
C23_AbsentIffNoKnowledge ==
  BuiltContext => ((ret.context = Undefined) <=> NoKnowledgeOf(ret.domain))

\* C24: once n >= 1 visits of D have been recorded, the digest of D has the
\* visit-count line stating n.
C24_DigestStatesVisitCount ==
  (BuiltContext /\ knowHist[ret.domain].visits >= 1) =>
    /\ ret.context # Undefined
    /\ SeqIncludes(ret.context[1].lines, VisitLine(knowHist[ret.domain].visits))

(***************************************************************************)
(* The session specification: saves, deletes and reads of saved sessions   *)
(***************************************************************************)
StorageStates == {"cookies 1", "cookies 2"}
SaveTimes == {1, 2}

SessionInputs ==
  {AgentSession(id, t, t, state) : id \in SavedIds, t \in SaveTimes, state \in StorageStates}

SessFrame ==
  UNCHANGED <<storeVars, nTicks, lastWrite, hist, cacheHist, concVars, execVars, parVars,
              requests, knowHist, frontVars>>

Call_saveSession ==
  \E session \in SessionInputs :
    /\ nOps < MaxSessionOps
    /\ nOps' = nOps + 1
    /\ sessions' = saveSession(sessions, session)
    /\ sessHist' = [sessHist EXCEPT ![session.id] = Append(@, <<"save", session>>)]
    /\ ret' = [NoRet EXCEPT !.op = "saveSession", !.id = session.id]
    /\ SessFrame

Call_deleteSession ==
  \E id \in SavedIds :
    /\ nOps < MaxSessionOps
    /\ nOps' = nOps + 1
    /\ sessions' = deleteSession(sessions, id)
    /\ sessHist' = [sessHist EXCEPT ![id] = Append(@, <<"delete">>)]
    /\ ret' = [NoRet EXCEPT !.op = "deleteSession", !.id = id]
    /\ SessFrame

Call_getSession ==
  \E id \in SavedIds :
    /\ ret' = [NoRet EXCEPT !.op = "getSession", !.id = id,
                            !.session = getSession(sessions, id)]
    /\ UNCHANGED <<nOps, sessions, sessHist>>
    /\ SessFrame

Call_listSessions ==
  \E list \in listSessions(sessions) :
    /\ ret' = [NoRet EXCEPT !.op = "listSessions", !.list = list]
    /\ UNCHANGED <<nOps, sessions, sessHist>>
    /\ SessFrame

NextSess ==
  \/ Call_saveSession
  \/ Call_deleteSession
  \/ Call_getSession
  \/ Call_listSessions

SpecSess == Init /\ [][NextSess]_vars

\* what the history of an id says getSession must return
LastSaved(id) ==
  IF sessHist[id] = <<>> THEN NoSession
  ELSE LET op == sessHist[id][Len(sessHist[id])] IN
         IF op[1] = "save" THEN op[2] ELSE NoSession

\* C25: getSession(id) is the snapshot of the last save on id when the last
\* operation on id was a save, null when it was a delete or id was never
\* saved; listSessions holds the sessions getSession finds, each once.
C25_SessionLastWriteWins ==
  /\ ret.op = "getSession" => ret.session = LastSaved(ret.id)
  /\ ret.op = "listSessions" =>
       /\ NoDuplicate(ret.list)
       /\ SeqRange(ret.list) = {LastSaved(id) : id \in SavedIds} \ {NoSession}
       /\ \A i, j \in 1..Len(ret.list) : ret.list[i].id = ret.list[j].id => i = j

\* a session saved twice with different states and read, beside one saved and
\* deleted
C25_Witness ==
  /\ ret.op = "getSession"
  /\ ret.session # NoSession
  /\ Len(sessHist[ret.id]) = 2
  /\ sessHist[ret.id][1][1] = "save"
  /\ sessHist[ret.id][1][2].storage_state # ret.session.storage_state

\* two well-formed URLs of one hostname and one path, up to a trailing slash
\* and whatever their query strings
SameHostAndPath(u, v) == u.ok /\ v.ok /\ u.host = v.host /\ u.segs = v.segs

\* a read that directly follows a write
ReadAfterWrite == ret.op = "getCachedModel" /\ ret.prev_op = "cacheModel"

\* C26: normalizing a normalized URL changes nothing; URLs of the same hostname
\* and path normalize to one key whatever their query strings and trailing
\* slash, and a model cached under one is read back under the other.
C26_NormalizeIdempotentQueryInsensitive ==
  /\ \A u \in CacheUrls :
       u.ok => /\ normalizeUrlText(Href(u), CacheUrls) = normalizeUrl(u)
               /\ normalizeUrlText(normalizeUrl(u), CacheUrls) = normalizeUrl(u)
  /\ \A u, v \in CacheUrls : SameHostAndPath(u, v) => normalizeUrl(u) = normalizeUrl(v)
  /\ (ReadAfterWrite /\ SameHostAndPath(ret.prev_url, ret.url)) =>
       ret.model = ret.prev_model

\* cached under the bare URL, read under the URL with a trailing slash and a
\* query string
C26_Witness ==
  /\ ReadAfterWrite
  /\ SameHostAndPath(ret.prev_url, ret.url)
  /\ ret.prev_url.search = "" /\ ~ret.prev_url.slash
  /\ ret.url.search # "" /\ ret.url.slash
  /\ ret.model = ret.prev_model
  /\ ret.model # NoModel

(***************************************************************************)
(* The refresh specification: refreshModel calls (store.ts 442-475) await  *)
(* by await, any number of them in flight, on sessions already on a page.  *)
(* Between two awaits a call runs alone; at an await any other call may    *)
(* run.                                                                    *)
(***************************************************************************)
RefSessions == {"r1", "r2"}

UrlAQuery == Url("x.com", <<"a">>, TRUE, "?sid=1")

\* where the sessions are: on one page under two URLs, or on two pages of a site
RefPages ==
  {[s \in RefSessions |-> IF s = "r1" THEN UrlA ELSE UrlAQuery],
   [s \in RefSessions |-> IF s = "r1" THEN UrlA ELSE UrlB]}

RefAnalyses == {"login", "search", "throw"}

\* a refreshModel call: the await it is at (pc), the URL it read, how it ended
\* (outcome), the model it returned, and the history of what it did: the
\* tables and maps its steps changed (touched), the driver reads and translator
\* calls it made (asked), by how much its last step changed the visit count of
\* its domain (visit_delta), whether its last step left its model as the
\* session's current one (adopted) and in the cache row of its URL (written),
\* and what the cache held for its URL when it looked (cached_before)
NewRequest(s) ==
  [session |-> s, pc |-> "getCurrentUrl", url |-> NoPage, outcome |-> "", model |-> NoModel,
   touched |-> {}, asked |-> {}, visit_delta |-> 0, adopted |-> FALSE, written |-> FALSE,
   cached_before |-> NoModel]

InitRef ==
  /\ clock = 0
  /\ page_model_cache = {}
  /\ selector_library = {}
  /\ ret = NoRet
  /\ nOps = 0
  /\ nTicks = 0
  /\ lastWrite = [p \in Patterns |-> NoTime]
  /\ hist = [k \in SelKeys |-> <<>>]
  /\ cacheHist = [p \in Patterns |-> <<>>]
  /\ recScript = [s \in ConcSessions |-> <<>>]
  /\ recDone = [s \in ConcSessions |-> 0]
  /\ site_profiles = {}
  /\ site_knowledge = {}
  /\ pages \in RefPages
  /\ pageModels = [s \in RefSessions |-> NoModel]
  /\ last = NoLast
  /\ contexts = RefSessions
  /\ tasks = <<>>
  /\ task_pc = <<>>
  /\ task_outcome = <<>>
  /\ task_promise = <<>>
  /\ batch = Pending
  /\ InitSide

RefFrame ==
  UNCHANGED <<clock, ret, countVars, lastWrite, hist, cacheHist, concVars, parVars,
              sessions, knowHist, sessHist, frontVars, selector_library, pages, last>>

VisitsOf(knowledge, domain) ==
  IF \E r \in knowledge : r.domain = domain
    THEN (CHOOSE r \in knowledge : r.domain = domain).visit_count
    ELSE 0

\* the tables and maps that differ between this state and the next
TouchedNow ==
  (IF page_model_cache' # page_model_cache THEN {"page_model_cache"} ELSE {})
    \cup (IF site_knowledge' # site_knowledge THEN {"site_knowledge"} ELSE {})
    \cup (IF site_profiles' # site_profiles THEN {"site_profiles"} ELSE {})
    \cup (IF pageModels' # pageModels THEN {"pageModels"} ELSE {})

\* what a step leaves in the call's record, beside what it sets itself
Stepped(r) ==
  [r EXCEPT !.touched = @ \cup TouchedNow,
            !.visit_delta = VisitsOf(site_knowledge', getDomain(r.url))
                              - VisitsOf(site_knowledge, getDomain(r.url)),
            !.adopted = (r.model # NoModel /\ pageModels'[r.session] = r.model),
            !.written = /\ r.model # NoModel
                        /\ HasCacheRow(page_model_cache', normalizeUrl(r.url))
                        /\ JSONparse(CacheRow(page_model_cache',
                                              normalizeUrl(r.url)).model_json) = r.model]

\* pageModels.set(sessionId, model)
Adopt_Skip(models, s, model) == models
Adopt(models, s, model) == [models EXCEPT ![s] = model]

\* refreshModel(sessionId) is called: it runs to its first await
Ref_call(s) ==
  /\ Len(requests) < MaxRequests
  /\ requests' = Append(requests, NewRequest(s))
  /\ UNCHANGED <<page_model_cache, site_knowledge, site_profiles, pageModels>>
  /\ RefFrame

\* getCurrentUrl answers; the call asks checkForCaptcha
Ref_gotUrl(i) ==
  /\ requests[i].pc = "getCurrentUrl"
  /\ requests' = [requests EXCEPT ![i] = [@ EXCEPT !.pc = "checkForCaptcha",
                                                    !.url = pages[requests[i].session]]]
  /\ UNCHANGED <<page_model_cache, site_knowledge, site_profiles, pageModels>>
  /\ RefFrame

\* checkForCaptcha answers (the URL, or the title the page has at the moment):
\* the CAPTCHA model, or the cache lookup and on a miss the site context and
\* the request for the page content
Ref_checked(i) ==
  /\ requests[i].pc = "checkForCaptcha"
  /\ \E challenged \in BOOLEAN :
       LET r == requests[i]
           cached == getCachedModel(page_model_cache, r.url, clock)
       IN IF checkForCaptcha(r.url) \/ challenged
            THEN /\ UNCHANGED <<page_model_cache, site_knowledge, site_profiles, pageModels>>
                 /\ requests' =
                      [requests EXCEPT ![i] =
                         Stepped([r EXCEPT !.pc = "done", !.outcome = "captcha",
                                           !.cached_before = cached,
                                           !.model = buildCaptchaModel(r.url, clock)])]
          ELSE IF cached # NoModel
            THEN /\ page_model_cache' = getCachedModelEffect(page_model_cache, r.url, clock)
                 /\ pageModels' = Adopt(pageModels, r.session, cached)
                 /\ UNCHANGED <<site_knowledge, site_profiles>>
                 /\ requests' =
                      [requests EXCEPT ![i] =
                         Stepped([r EXCEPT !.pc = "done", !.outcome = "hit",
                                           !.cached_before = cached, !.model = cached])]
          ELSE /\ page_model_cache' = getCachedModelEffect(page_model_cache, r.url, clock)
               /\ UNCHANGED <<site_knowledge, site_profiles, pageModels>>
               /\ requests' =
                    [requests EXCEPT ![i] =
                       Stepped([r EXCEPT !.pc = "content", !.asked = @ \cup {"content"}])]
  /\ RefFrame

\* getPageHTML and getAccessibilityTree have answered; the call asks the
\* translator
Ref_gotContent(i) ==
  /\ requests[i].pc = "content"
  /\ requests' = [requests EXCEPT ![i] = [@ EXCEPT !.pc = "analyze",
                                                    !.asked = @ \cup {"translator"}]]
  /\ UNCHANGED <<page_model_cache, site_knowledge, site_profiles, pageModels>>
  /\ RefFrame

\* analyze answers or throws; with a model the call records the visit,
\* updates the profile, caches and adopts the model
Ref_analyzed(i) ==
  /\ requests[i].pc = "analyze"
  /\ \E analysis \in RefAnalyses :
       LET r == requests[i]
           model == analyze(r.url, analysis, clock)
           domain == getDomain(r.url)
       IN IF analysis = "throw"
            THEN /\ UNCHANGED <<page_model_cache, site_knowledge, site_profiles, pageModels>>
                 /\ requests' = [requests EXCEPT ![i] =
                                   Stepped([r EXCEPT !.pc = "done", !.outcome = "threw"])]
            ELSE /\ site_knowledge' = incrementVisitCount(site_knowledge, domain)
                 /\ site_profiles' = updateSiteProfile(site_profiles, domain,
                                                       model.page_type, "")
                 /\ page_model_cache' = cacheModel(page_model_cache, r.url, model, clock)
                 /\ pageModels' = Adopt(pageModels, r.session, model)
                 /\ requests' = [requests EXCEPT ![i] =
                                   Stepped([r EXCEPT !.pc = "done", !.outcome = "analyzed",
                                                     !.model = model])]
  /\ RefFrame

NextRef ==
  \/ \E s \in RefSessions : Ref_call(s)
  \/ \E i \in 1..Len(requests) : Ref_gotUrl(i)
  \/ \E i \in 1..Len(requests) : Ref_checked(i)
  \/ \E i \in 1..Len(requests) : Ref_gotContent(i)
  \/ \E i \in 1..Len(requests) : Ref_analyzed(i)

SpecRef == InitRef /\ [][NextRef]_vars

InFlight(i) == requests[i].pc # "done"

Done(i, outcome) == requests[i].pc = "done" /\ requests[i].outcome = outcome

\* C27: at most one call is in flight on a session at any time.
C27_OneInFlightPerSession ==
  \A i, j \in 1..Len(requests) :
    (InFlight(i) /\ InFlight(j) /\ requests[i].session = requests[j].session) => i = j

\* C28: a refresh on which the driver reports a CAPTCHA returns the CAPTCHA
\* model (page type captcha, no action, one warning) and none of its steps
\* changes the cache, the visit counts, the profiles or the current models or
\* asks for the page content or the translator.
C28_CaptchaShortCircuit ==
  \A i \in 1..Len(requests) :
    Done(i, "captcha") =>
      /\ requests[i].model.page_type = "captcha"
      /\ requests[i].model.available_actions = <<>>
      /\ Len(requests[i].model.warnings) = 1
      /\ requests[i].touched = {}
      /\ requests[i].asked = {}

\* a CAPTCHA came up on a page that has a model in the cache
C28_Witness ==
  \E i \in 1..Len(requests) :
    /\ Done(i, "captcha")
    /\ requests[i].cached_before # NoModel
    /\ HasCacheRow(page_model_cache, normalizeUrl(requests[i].url))

\* C29: a refresh that finds the model in the cache returns it, leaves it as
\* the session's current model, asks neither the page content nor the
\* translator and changes no visit count and no profile.
C29_CacheHitAdopts ==
  \A i \in 1..Len(requests) :
    Done(i, "hit") =>
      /\ requests[i].model = requests[i].cached_before
      /\ requests[i].model # NoModel
      /\ requests[i].adopted
      /\ requests[i].asked = {}
      /\ requests[i].touched \subseteq {"page_model_cache", "pageModels"}

\* the model one session's refresh cached is served to the other session,
\* whose URL differs in its query string
C29_Witness ==
  \E i, j \in 1..Len(requests) :
    /\ Done(i, "analyzed")
    /\ Done(j, "hit")
    /\ requests[i].session # requests[j].session
    /\ requests[i].url # requests[j].url
    /\ requests[j].model = requests[i].model
    /\ pageModels[requests[j].session] = requests[i].model

\* the refreshes of a domain that missed the cache and completed
CompletedMisses(domain) ==
  {i \in 1..Len(requests) : Done(i, "analyzed") /\ getDomain(requests[i].url) = domain}

\* C30: a refresh that misses the cache and completes adds one to the visit
\* count of its domain, leaves the page type in the profile, the model in the
\* cache under the normalized URL, and the model as the session's current one;
\* the visit count of a domain is the number of such refreshes, however the
\* refreshes interleave.
C30_MissRecordsOneVisit ==
  /\ \A i \in 1..Len(requests) :
       Done(i, "analyzed") =>
         /\ requests[i].visit_delta = 1
         /\ requests[i].adopted
         /\ HasProfile(site_profiles, getDomain(requests[i].url))
         /\ SeqIncludes(ProfileOf(site_profiles, getDomain(requests[i].url)).page_types,
                        requests[i].model.page_type)
         /\ requests[i].written
         /\ HasCacheRow(page_model_cache, normalizeUrl(requests[i].url))
  /\ \A d \in KnowDomains :
       VisitsOf(site_knowledge, d) = Cardinality(CompletedMisses(d))

\* two refreshes of one page, from two sessions, both past the cache lookup
\* before either wrote the cache: both missed, both completed
C30_Witness ==
  /\ Cardinality(CompletedMisses("x.com")) = 2
  /\ \E i, j \in CompletedMisses("x.com") :
       /\ requests[i].session # requests[j].session
       /\ normalizeUrl(requests[i].url) = normalizeUrl(requests[j].url)
  /\ VisitsOf(site_knowledge, "x.com") = 2

(***************************************************************************)
(* Claims about the executor's resolution of an action without a hint      *)
(***************************************************************************)
\* the last call was an executeAction that resolved an action without a hint
UnhintedAction ==
  /\ last.op = "executeAction"
  /\ last.reached
  /\ ~last.resolved.hinted

\* what getBestSelector answers for the resolved action at the start of the call
RememberedFor ==
  getBestSelector(last.lib_before, getDomain(last.url_before), last.resolved.name)

\* C31: when the resolved action has no hint and getBestSelector has nothing
\* for (domain, action name), executeAction issues no driver call, returns a
\* failure carrying the "no selector available ... explicit selectors" error and
\* the names of the model the action was found in, records no selector outcome
\* and leaves the cache, the profiles and the session's current model as they
\* were; when getBestSelector has a selector, that selector is clicked and no
\* other driver call is made.
C31_UnhintedResolution ==
  UnhintedAction =>
    /\ last.unresolvable <=> RememberedFor = {Null}
    /\ last.unresolvable =>
         /\ last.drv = <<>>
         /\ ~last.threw /\ ~last.success
         /\ last.message =
              "Action '" \o last.action \o "' failed: Cannot execute '" \o last.action
                \o "' - no selector available. This action needs to be executed at "
                \o "least once with explicit selectors to learn from."
         /\ last.next_actions = ActionNames(pageModels[last.session])
         /\ selector_library = last.lib_before
         /\ pages[last.session] = last.url_before
         /\ FindAction(pageModels[last.session], last.action) # 0
         /\ last.model_before # NoModel =>
              /\ pageModels[last.session] = last.model_before
              /\ page_model_cache = last.cache_before
              /\ site_profiles = last.profiles_before
    /\ ~last.unresolvable =>
         /\ Len(last.drv) = 1
         /\ last.drv[1].call = "click"
         /\ last.drv[1].selector \in RememberedFor \ {Null}

\* an action without a hint found nothing in memory, on a session with a
\* current model while the cache holds entries
C31_Witness ==
  /\ UnhintedAction
  /\ last.unresolvable
  /\ last.model_before # NoModel
  /\ last.cache_before # {}

\* an action without a hint was run through the selector memory holds
C31_LearnedClicked ==
  /\ UnhintedAction
  /\ ~last.unresolvable
  /\ last.drv # <<>>

\* the last call was an executeAction whose performAction returned and left the
\* session on a page that checkForCaptcha reports
CaptchaAfterAction ==
  /\ last.op = "executeAction"
  /\ last.reached
  /\ last.performed
  /\ checkForCaptcha(pages[last.session])

\* C32: when a CAPTCHA is detected after performAction returned, executeAction
\* returns, after the settle pause, a failure with the message "CAPTCHA appeared
\* after action." and the action names of the model the action was found in;
\* it records no selector outcome, adds no profile note, counts no visit and
\* writes no cache entry, and the session's current model stays the model the
\* action was found in.
C32_CaptchaAfterActionIsReported ==
  CaptchaAfterAction =>
    /\ ~last.threw /\ ~last.success
    /\ last.error = "captcha"
    /\ last.message = "CAPTCHA appeared after action."
    /\ last.model = NoModel
    /\ last.next_actions = ActionNames(pageModels[last.session])
    /\ FindAction(pageModels[last.session], last.action) # 0
    /\ selector_library = last.lib_before
    /\ clock = last.at + SETTLE_MS
    /\ last.model_before # NoModel =>
         /\ pageModels[last.session] = last.model_before
         /\ page_model_cache = last.cache_before
         /\ site_profiles = last.profiles_before
         /\ site_knowledge = last.knowledge_before

\* a hinted action of a current model was carried out and ended on a CAPTCHA
C32_Witness ==
  /\ CaptchaAfterAction
  /\ last.resolved.hinted
  /\ last.drv # <<>>
  /\ last.model_before # NoModel
  /\ last.next_actions # <<>>
  /\ last.url_before # pages[last.session]

(***************************************************************************)
(* Further claims about fillForm                                           *)
(***************************************************************************)
\* the last call was a fillForm that got to its loop over the fields
FilledForm == last.op = "fillForm" /\ last.reached

\* whether the i-th supplied field got a driver fill
Attempted(i) == last.handled[i] \in {"filled", "failed"}

\* the place in last.drv of the fill of the i-th supplied field
FillIndex(i) == Cardinality({j \in 1..i : Attempted(j)})

\* the records under (domain, actionName) whose counts the last call changed
ChangedUnder(actionName) ==
  {r \in selector_library \ last.lib_before :
     r.domain = getDomain(last.url_before) /\ r.action_name = actionName}

\* C33: in fillForm every supplied field that has a field of the form and a
\* selector (the field's own, or the one getBestSelector has for fill_<field>)
\* gets one driver fill with that selector and one more outcome in the record
\* (domain, fill_<field>, selector): a success if the fill returned, a failure
\* if it raised; a field that is not in the form or has no selector changes no
\* record; no other record changes, whatever became of the other fields.
C33_FieldsRecordedIndependently ==
  FilledForm =>
    /\ Len(last.handled) = Len(last.supplied)
    /\ Len(last.drv) = Cardinality({i \in 1..Len(last.supplied) : Attempted(i)})
    /\ \A i \in 1..Len(last.supplied) :
         LET qualifier == "fill_" \o last.supplied[i]
             domain == getDomain(last.url_before)
         IN IF Attempted(i)
              THEN LET selector == last.drv[FillIndex(i)].selector
                       key == <<qualifier, selector>>
                   IN /\ last.drv[FillIndex(i)].call = "fill"
                      /\ selector # ""
                      /\ (toLowerCase(last.supplied[i]) = "email" => selector = "#e")
                      /\ (toLowerCase(last.supplied[i]) = "password" =>
                            selector \in getBestSelector(last.lib_before, domain, qualifier))
                      /\ Cardinality(ChangedUnder(qualifier)) = 1
                      /\ \A r \in ChangedUnder(qualifier) : r.selector = selector
                      /\ Counts(selector_library, domain, key) =
                           <<Counts(last.lib_before, domain, key)[1]
                               + (IF last.handled[i] = "filled" THEN 1 ELSE 0),
                             Counts(last.lib_before, domain, key)[2]
                               + (IF last.handled[i] = "failed" THEN 1 ELSE 0)>>
              ELSE ChangedUnder(qualifier) = {}
    /\ \A r \in selector_library \ last.lib_before :
         \E i \in 1..Len(last.supplied) :
           Attempted(i) /\ r.action_name = "fill_" \o last.supplied[i]
    /\ Cardinality(selector_library) =
         Cardinality(last.lib_before)
           + Cardinality({i \in 1..Len(last.supplied) :
                            /\ Attempted(i)
                            /\ Counts(last.lib_before, getDomain(last.url_before),
                                      <<"fill_" \o last.supplied[i],
                                        last.drv[FillIndex(i)].selector>>) = <<0, 0>>})

\* two fields were supplied, one filled through the form's selector and one
\* through a remembered selector, and exactly one of the two fills raised
C33_Witness ==
  /\ FilledForm
  /\ Len(last.supplied) = 2
  /\ Attempted(1) /\ Attempted(2)
  /\ last.handled[1] # last.handled[2]
  /\ last.drv[1].selector # last.drv[2].selector

\* a supplied field had no field in the form while the next one was filled
C33_MissingFieldSkipped ==
  /\ FilledForm
  /\ Len(last.supplied) = 2
  /\ last.handled[1] = "not found"
  /\ last.handled[2] = "failed"

(***************************************************************************)
(* The cache calls on a database that already holds selector records,      *)
(* site profiles, visit counts and a saved session of two sites            *)
(***************************************************************************)
InitInv ==
  /\ clock = 0
  /\ page_model_cache = {}
  /\ selector_library =
       recordSelectorOutcome(recordSelectorOutcome({}, "x.com", "login", "#a", TRUE, 0),
                             "y.com", "login", "#b", TRUE, 0)
  /\ ret = NoRet
  /\ nOps = 0
  /\ nTicks = 0
  /\ lastWrite = [p \in Patterns |-> NoTime]
  /\ hist = [k \in SelKeys |-> <<>>]
  /\ cacheHist = [p \in Patterns |-> <<>>]
  /\ recScript = [s \in ConcSessions |-> <<>>]
  /\ recDone = [s \in ConcSessions |-> 0]
  /\ site_profiles = updateSiteProfile(updateSiteProfile({}, "x.com", "login", ""),
                                       "y.com", "search", "")
  /\ site_knowledge = incrementVisitCount(incrementVisitCount({}, "x.com"), "y.com")
  /\ pages = [s \in ExecSessions |-> NoPage]
  /\ pageModels = [s \in ExecSessions |-> NoModel]
  /\ last = NoLast
  /\ NoBatch
  /\ sessions = saveSession({}, AgentSession("a", 0, 0, "cookies 1"))
  /\ requests = <<>>
  /\ knowHist = NoKnowHist
  /\ sessHist = [id \in SavedIds |-> <<>>]
  /\ sessionId = Null
  /\ activeSession = Null

SpecInv == InitInv /\ [][NextCache]_vars

\* the step is a call of invalidateCache
InvalidateStep == ret'.op = "invalidateCache" /\ nOps' = nOps + 1

\* C34: invalidateCache(D) leaves in the cache exactly the entries whose domain
\* is not D: after it getCachedModel returns nothing for a URL of D and, for a
\* URL of another domain, what it returned before; selector records, site
\* profiles, visit counts and saved sessions are as they were.
C34_InvalidateFrame ==
  [][InvalidateStep =>
       /\ page_model_cache' = {r \in page_model_cache : r.domain # ret'.domain}
       /\ \A u \in CacheUrls :
            getCachedModel(page_model_cache', u, clock') =
              IF getDomain(u) = ret'.domain THEN NoModel
              ELSE getCachedModel(page_model_cache, u, clock)
       /\ UNCHANGED <<selector_library, site_profiles, site_knowledge, sessions>>]_vars

\* a domain with a cached page was invalidated while another domain's entry,
\* still within its time-to-live, and both domains' other records are held
C34_Witness ==
  /\ ret.op = "invalidateCache"
  /\ ret.domain = "x.com"
  /\ lastWrite["x.com/a"] # NoTime
  /\ \E r \in page_model_cache : r.domain = "y.com" /\ ~Expired(r, clock)
  /\ \E r \in selector_library : r.domain = "x.com"
  /\ \E r \in site_profiles : r.domain = "x.com"
  /\ \E r \in site_knowledge : r.domain = "x.com"
  /\ sessions # {}

(***************************************************************************)
(* Claims about the lifetime of the executor's current models              *)
(***************************************************************************)
\* C35: the executor holds a current model only for sessions that are live in
\* the driver: pageModels has no entry for a session that was destroyed (or
\* never created).
C35_ModelsOnlyForLiveSessions ==
  \A s \in DOMAIN pageModels : pageModels[s] # NoModel => s \in contexts

(***************************************************************************)
(* Further claims about refreshModel                                       *)
(***************************************************************************)
\* the last call was a navigate, refreshModel or getPageState whose refresh
\* missed the cache and raised while fetching the page or translating it
RefreshRaised ==
  /\ last.op \in {"navigate", "refreshModel", "getPageState"}
  /\ last.analysis = "throw"

\* C36: a refresh that misses the cache and raises in the content retrieval or
\* in the translator rejects and leaves the visit counts, the site profiles,
\* the cache, the selector library and the session's current model as they
\* were before the call.
C36_RefreshAllOrNothing ==
  RefreshRaised =>
    /\ last.threw /\ ~last.success
    /\ last.model = NoModel
    /\ site_knowledge = last.knowledge_before
    /\ site_profiles = last.profiles_before
    /\ page_model_cache = last.cache_before
    /\ selector_library = last.lib_before
    /\ pageModels[last.session] = last.model_before

\* a refresh raised on a session that has a current model, on a site with a
\* visit count, a profile and a cache entry
C36_Witness ==
  /\ RefreshRaised
  /\ last.model_before # NoModel
  /\ last.knowledge_before # {}
  /\ last.profiles_before # {}
  /\ last.cache_before # {}

\* C37: the model a refresh returns carries, as its url, the URL the driver
\* reported for the session when the refresh began, whether the model was
\* built for a CAPTCHA, taken from the cache or made by the translator.
C37_ModelDescribesCurrentPage ==
  \A i \in 1..Len(requests) :
    (requests[i].pc = "done" /\ requests[i].outcome # "threw") =>
      requests[i].model.url = requests[i].url

(***************************************************************************)
(* BrowserEngine sessions (store.ts 868-903): the engine's contexts and    *)
(* pages maps travel as one record eng                                     *)
(***************************************************************************)
Engine == [contexts |-> contexts, pages |-> pages]

\* createSession once newContext and newPage have answered: the session is
\* registered under session?.id ?? randomUUID(), its page on about:blank
createSession(eng, id) ==
  [contexts |-> eng.contexts \cup {id}, pages |-> [eng.pages EXCEPT ![id] = AboutBlank]]

\* destroySession once ctx.close() has answered (or with no context to close)
destroySession(eng, id) ==
  [contexts |-> eng.contexts \ {id}, pages |-> [eng.pages EXCEPT ![id] = NoPage]]

\* the engine is left as eng
EngineLeaves(eng) == contexts' = eng.contexts /\ pages' = eng.pages

(***************************************************************************)
(* The facade specification: one AgentBrowser (part_001 54-126) and the    *)
(* calls launch, navigate, state, saveSession and restoreSession, each a   *)
(* whole method, one after the other.  Driver operations may fail.         *)
(***************************************************************************)
MaxFacadeOps == 5

\* the id randomUUID gives the session of launch, and an id a caller saves under
FacadeIds == {"u1", "work"}

FacadeAnalyses == {"search", "throw"}

InitFacade ==
  /\ clock = 0
  /\ page_model_cache = {}
  /\ selector_library = {}
  /\ ret = NoRet
  /\ nOps = 0
  /\ nTicks = 0
  /\ lastWrite = [p \in Patterns |-> NoTime]
  /\ hist = [k \in SelKeys |-> <<>>]
  /\ cacheHist = [p \in Patterns |-> <<>>]
  /\ InitSide
  /\ recScript = [s \in ConcSessions |-> <<>>]
  /\ recDone = [s \in ConcSessions |-> 0]
  /\ site_profiles = {}
  /\ site_knowledge = {}
  /\ pages = [s \in FacadeIds |-> NoPage]
  /\ pageModels = [s \in FacadeIds |-> NoModel]
  /\ last = NoLast
  /\ contexts = {}
  /\ tasks = <<>>
  /\ task_pc = <<>>
  /\ task_outcome = <<>>
  /\ task_promise = <<>>
  /\ batch = Pending

FacadeFrame ==
  UNCHANGED <<clock, ret, nTicks, histVars, concVars, requests, knowHist, sessHist,
              activeSession, tasks, task_pc, task_outcome, task_promise, batch>>

\* what a facade call records about the state it started in
FacadeStarted(op) ==
  [Started(op, sessionId) EXCEPT !.prev_op = last.op, !.prev_success = last.success]

FacadeAnalysesFor(st, url, now) ==
  IF NeedsAnalysis(st, url, now) THEN FacadeAnalyses ELSE {"none"}

\* launch(): engine.launch(), then this.sessionId = await engine.createSession()
AB_launch ==
  \E created \in BOOLEAN :
    /\ nOps < MaxFacadeOps
    /\ sessionId = Null
    /\ nOps' = nOps + 1
    /\ FacadeFrame
    /\ Leaves(Store)
    /\ UNCHANGED sessions
    /\ IF created
         THEN /\ EngineLeaves(createSession(Engine, "u1"))
              /\ sessionId' = "u1"
              /\ last' = [NoLast EXCEPT !.op = "launch", !.success = TRUE, !.session = "u1"]
         ELSE /\ UNCHANGED <<contexts, pages, sessionId>>
              /\ last' = [NoLast EXCEPT !.op = "launch", !.threw = TRUE]

\* navigate(url): ensureSession(), then executor.navigate(this.sessionId, url);
\* engine.navigate throws when the session has no page or the page does not
\* arrive
AB_navigate ==
  \E arrives \in BOOLEAN :
    /\ nOps < MaxFacadeOps
    /\ sessionId # Null
    /\ nOps' = nOps + 1
    /\ FacadeFrame
    /\ UNCHANGED <<sessions, sessionId, contexts>>
    /\ IF pages[sessionId] = NoPage \/ ~arrives
         THEN /\ Leaves(Store)
              /\ UNCHANGED pages
              /\ last' = [FacadeStarted("navigate") EXCEPT !.threw = TRUE,
                                                           !.url_after = pages[sessionId]]
         ELSE \E analysis \in FacadeAnalysesFor(Store, UrlA, clock) :
                LET r == refreshModel(Store, sessionId, UrlA, analysis, clock) IN
                  /\ Leaves(r.st)
                  /\ pages' = [pages EXCEPT ![sessionId] = UrlA]
                  /\ last' = [FacadeStarted("navigate") EXCEPT
                                !.threw = r.threw, !.success = ~r.threw, !.model = r.model,
                                !.analysis = analysis, !.url_after = UrlA]

\* state(): ensureSession(), then executor.getPageState(this.sessionId), whose
\* refresh throws when the session has no page
AB_state ==
  /\ nOps < MaxFacadeOps
  /\ sessionId # Null
  /\ nOps' = nOps + 1
  /\ FacadeFrame
  /\ UNCHANGED <<sessions, sessionId, contexts, pages>>
  /\ IF pageModels[sessionId] # NoModel
       THEN /\ Leaves(Store)
            /\ last' = [FacadeStarted("state") EXCEPT
                          !.success = TRUE, !.model = pageModels[sessionId],
                          !.url_after = pages[sessionId]]
     ELSE IF pages[sessionId] = NoPage
       THEN /\ Leaves(Store)
            /\ last' = [FacadeStarted("state") EXCEPT !.threw = TRUE]
     ELSE \E analysis \in FacadeAnalysesFor(Store, pages[sessionId], clock) :
            LET r == refreshModel(Store, sessionId, pages[sessionId], analysis, clock) IN
              /\ Leaves(r.st)
              /\ last' = [FacadeStarted("state") EXCEPT
                            !.threw = r.threw, !.success = ~r.threw, !.model = r.model,
                            !.analysis = analysis, !.url_after = pages[sessionId]]

\* saveSession(id?): exportSessionState throws when the session has no context;
\* the session is saved under id ?? this.sessionId
AB_saveSession ==
  \E id \in {Null, "work"} :
    /\ nOps < MaxFacadeOps
    /\ sessionId # Null
    /\ nOps' = nOps + 1
    /\ FacadeFrame
    /\ Leaves(Store)
    /\ UNCHANGED <<sessionId, contexts, pages>>
    /\ IF sessionId \notin contexts
         THEN /\ UNCHANGED sessions
              /\ last' = [FacadeStarted("saveSession") EXCEPT !.threw = TRUE]
         ELSE /\ sessions' = saveSession(sessions,
                                         AgentSession(IF id = Null THEN sessionId ELSE id,
                                                      clock, clock, "cookies 1"))
              /\ last' = [FacadeStarted("saveSession") EXCEPT !.success = TRUE]

\* restoreSession(id): the saved session is looked up, the current session is
\* destroyed, and a session is created from the saved one, under its id
AB_restoreSession ==
  \E id \in FacadeIds, closed \in BOOLEAN, created \in BOOLEAN :
    /\ nOps < MaxFacadeOps
    /\ sessionId # Null
    /\ nOps' = nOps + 1
    /\ FacadeFrame
    /\ Leaves(Store)
    /\ UNCHANGED sessions
    /\ LET saved == getSession(sessions, id)
           destroyed == destroySession(Engine, sessionId)
       IN IF saved = NoSession \/ (sessionId \in contexts /\ ~closed)
            THEN /\ UNCHANGED <<sessionId, contexts, pages>>
                 /\ last' = [FacadeStarted("restoreSession") EXCEPT !.threw = TRUE]
          ELSE IF ~created
            THEN /\ EngineLeaves(destroyed)
                 /\ UNCHANGED sessionId
                 /\ last' = [FacadeStarted("restoreSession") EXCEPT !.threw = TRUE]
          ELSE /\ EngineLeaves(createSession(destroyed, saved.id))
               /\ sessionId' = saved.id
               /\ last' = [FacadeStarted("restoreSession") EXCEPT
                             !.success = TRUE, !.session = saved.id]

NextFacade ==
  \/ AB_launch
  \/ AB_navigate
  \/ AB_state
  \/ AB_saveSession
  \/ AB_restoreSession

SpecFacade == InitFacade /\ [][NextFacade]_vars

\* the last call was a state() that followed a successful restoreSession
StateAfterRestore ==
  /\ last.op = "state"
  /\ last.prev_op = "restoreSession"
  /\ last.prev_success

\* C38: the state() call that follows a successful restoreSession returns a
\* model of the page the restored session is on (a new page, on about:blank),
\* not a model that was held for a session destroyed earlier.
C38_StateAfterRestoreIsOwn ==
  (StateAfterRestore /\ ~last.threw) =>
    /\ last.model_before = NoModel
    /\ last.model.url = last.url_before

(***************************************************************************)
(* The server specification: one AgentBrowserMCPServer (part_000) and the  *)
(* tool calls browser_navigate, start_session, end_session, save_session   *)
(* and restore_session, each a whole handler, one after the other.  Driver *)
(* operations may fail; a handler that throws leaves what it had done.     *)
(***************************************************************************)
MaxMcpOps == 4

\* the id randomUUID gives a session created by the n-th call
FreshId(n) == "m" \o ToString(n)

\* an id a client asks for in start_session
ClientIds == {"work"}

McpIds == {FreshId(n) : n \in 1..MaxMcpOps} \cup ClientIds

InitMcp ==
  /\ clock = 0
  /\ page_model_cache = {}
  /\ selector_library = {}
  /\ ret = NoRet
  /\ nOps = 0
  /\ nTicks = 0
  /\ lastWrite = [p \in Patterns |-> NoTime]
  /\ hist = [k \in SelKeys |-> <<>>]
  /\ cacheHist = [p \in Patterns |-> <<>>]
  /\ InitSide
  /\ recScript = [s \in ConcSessions |-> <<>>]
  /\ recDone = [s \in ConcSessions |-> 0]
  /\ site_profiles = {}
  /\ site_knowledge = {}
  /\ pages = [s \in McpIds |-> NoPage]
  /\ pageModels = [s \in McpIds |-> NoModel]
  /\ last = NoLast
  /\ contexts = {}
  /\ tasks = <<>>
  /\ task_pc = <<>>
  /\ task_outcome = <<>>
  /\ task_promise = <<>>
  /\ batch = Pending

McpFrame ==
  UNCHANGED <<clock, ret, nTicks, histVars, concVars, requests, knowHist, sessHist,
              sessionId, tasks, task_pc, task_outcome, task_promise, batch>>

\* what a tool call leaves in last
ToolResult(op, threw) ==
  [NoLast EXCEPT !.op = op, !.threw = threw, !.success = ~threw,
                 !.prev_op = last.op, !.prev_success = last.success]

\* handleNavigate: a session is created when none is active, then
\* executor.navigate(this.activeSession, url)
Call_handleNavigate ==
  \E created \in BOOLEAN, arrives \in BOOLEAN :
    /\ nOps < MaxMcpOps
    /\ nOps' = nOps + 1
    /\ McpFrame
    /\ UNCHANGED sessions
    /\ IF activeSession = Null /\ ~created
         THEN /\ Leaves(Store)
              /\ UNCHANGED <<activeSession, contexts, pages>>
              /\ last' = ToolResult("navigate", TRUE)
         ELSE LET s == IF activeSession = Null THEN FreshId(nOps + 1) ELSE activeSession
                  eng == IF activeSession = Null THEN createSession(Engine, s) ELSE Engine
              IN /\ activeSession' = s
                 /\ contexts' = eng.contexts
                 /\ IF eng.pages[s] = NoPage \/ ~arrives
                      THEN /\ Leaves(Store)
                           /\ pages' = eng.pages
                           /\ last' = ToolResult("navigate", TRUE)
                      ELSE \E analysis \in FacadeAnalysesFor(Store, UrlA, clock) :
                             LET r == refreshModel(Store, s, UrlA, analysis, clock) IN
                               /\ Leaves(r.st)
                               /\ pages' = [eng.pages EXCEPT ![s] = UrlA]
                               /\ last' = [ToolResult("navigate", r.threw) EXCEPT
                                             !.model = r.model, !.session = s]

\* handleStartSession: the active session is destroyed, then
\* this.activeSession = await engine.createSession(session_id ? {id} : undefined)
handleStartSession ==
  \E session_id \in {Null} \cup ClientIds, closed \in BOOLEAN, created \in BOOLEAN :
    /\ nOps < MaxMcpOps
    /\ nOps' = nOps + 1
    /\ McpFrame
    /\ Leaves(Store)
    /\ UNCHANGED sessions
    /\ LET destroyed == IF activeSession # Null
                          THEN destroySession(Engine, activeSession) ELSE Engine
           id == IF session_id = Null THEN FreshId(nOps + 1) ELSE session_id
       IN IF activeSession # Null /\ activeSession \in contexts /\ ~closed
            THEN /\ UNCHANGED <<activeSession, contexts, pages>>
                 /\ last' = ToolResult("start_session", TRUE)
          ELSE IF ~created
            THEN /\ EngineLeaves(destroyed)
                 /\ UNCHANGED activeSession
                 /\ last' = ToolResult("start_session", TRUE)
          ELSE /\ EngineLeaves(createSession(destroyed, id))
               /\ activeSession' = id
               /\ last' = [ToolResult("start_session", FALSE) EXCEPT !.session = id]

\* handleEndSession: the active session is destroyed and activeSession set to null
handleEndSession ==
  \E closed \in BOOLEAN :
    /\ nOps < MaxMcpOps
    /\ nOps' = nOps + 1
    /\ McpFrame
    /\ Leaves(Store)
    /\ UNCHANGED sessions
    /\ IF activeSession = Null
         THEN /\ UNCHANGED <<activeSession, contexts, pages>>
              /\ last' = ToolResult("end_session", FALSE)
       ELSE IF activeSession \in contexts /\ ~closed
         THEN /\ UNCHANGED <<activeSession, contexts, pages>>
              /\ last' = ToolResult("end_session", TRUE)
       ELSE /\ EngineLeaves(destroySession(Engine, activeSession))
            /\ activeSession' = Null
            /\ last' = ToolResult("end_session", FALSE)

\* handleSaveSession: the active session's storage state is saved under its id
handleSaveSession ==
  /\ nOps < MaxMcpOps
  /\ nOps' = nOps + 1
  /\ McpFrame
  /\ Leaves(Store)
  /\ UNCHANGED <<activeSession, contexts, pages>>
  /\ IF activeSession = Null \/ activeSession \notin contexts
       THEN /\ UNCHANGED sessions
            /\ last' = ToolResult("save_session", TRUE)
       ELSE /\ sessions' = saveSession(sessions,
                                       AgentSession(activeSession, clock, clock, "cookies 1"))
            /\ last' = ToolResult("save_session", FALSE)

\* handleRestoreSession: the saved session is looked up, the active session is
\* destroyed, then this.activeSession = await engine.createSession(saved)
handleRestoreSession ==
  \E session_id \in McpIds, closed \in BOOLEAN, created \in BOOLEAN :
    /\ nOps < MaxMcpOps
    /\ nOps' = nOps + 1
    /\ McpFrame
    /\ Leaves(Store)
    /\ UNCHANGED sessions
    /\ LET saved == getSession(sessions, session_id)
           destroyed == IF activeSession # Null
                          THEN destroySession(Engine, activeSession) ELSE Engine
       IN IF saved = NoSession \/ (activeSession # Null /\ activeSession \in contexts /\ ~closed)
            THEN /\ UNCHANGED <<activeSession, contexts, pages>>
                 /\ last' = ToolResult("restore_session", TRUE)
          ELSE IF ~created
            THEN /\ EngineLeaves(destroyed)
                 /\ UNCHANGED activeSession
                 /\ last' = ToolResult("restore_session", TRUE)
          ELSE /\ EngineLeaves(createSession(destroyed, saved.id))
               /\ activeSession' = saved.id
               /\ last' = [ToolResult("restore_session", FALSE) EXCEPT !.session = saved.id]

NextMcp ==
  \/ Call_handleNavigate
  \/ handleStartSession
  \/ handleEndSession
  \/ handleSaveSession
  \/ handleRestoreSession

SpecMcp == InitMcp /\ [][NextMcp]_vars

\* C39: between tool calls the server's active session is null or a session
\* that is live in the driver, and at most one session is live.
C39_ActiveSessionIsLive ==
  /\ activeSession = Null \/ activeSession \in contexts
  /\ Cardinality(contexts) <= 1

(***************************************************************************)
(* Claims about what the selector memory hands back to the executor        *)
(***************************************************************************)
\* performAction returns inside its Tier 1 block for this action
ReturnsInTierOne(action) ==
  /\ action.hinted
  /\ \/ action.internal.type = "click" /\ action.internal.selector # ""
     \/ action.internal.type \in {"fill", "form"} /\ action.internal.has_map
          /\ action.internal.submit_selector # ""
     \/ action.internal.type = "navigate" /\ action.internal.selector # ""

\* the last call was an executeAction that clicked the selector getBestSelector
\* returned
TierTwoClicked ==
  /\ last.op = "executeAction"
  /\ last.reached
  /\ ~ReturnsInTierOne(last.resolved)
  /\ last.drv # <<>>
  /\ last.drv[Len(last.drv)].call = "click"

\* C40: a selector clicked because getBestSelector returned it for (domain,
\* action) is one the driver had been asked to click for that domain and
\* action before, and its record counts at least as many successes as failures.
C40_TierTwoClicksProvenSelectors ==
  TierTwoClicked =>
    LET domain == getDomain(last.url_before)
        selector == last.drv[Len(last.drv)].selector
    IN /\ <<domain, last.action, selector>> \in last.clicked
       /\ Counts(last.lib_before, domain, <<last.action, selector>>)[1] >=
            Counts(last.lib_before, domain, <<last.action, selector>>)[2]
====
